---- MODULE Spec2Model ----
(***************************************************************************)
(* PRTG datasource plugin: the API client (Api.ts), the cache and error    *)
(* services (services/CacheService, services/PRTGError) and the datasource *)
(* facade (datasource.ts) and the query editor controller                  *)
(* (QueryEditorController.ts), as state machines.                          *)
(*                                                                         *)
(* Conventions.                                                            *)
(*  - A JavaScript string that the code builds by concatenation is a       *)
(*    sequence of its parts: "ERROR: " + m is <<"ERROR: ">> \o m.           *)
(*  - A promise's outcome is a record [st, val, err] with st "resolved" or *)
(*    "rejected".                                                          *)
(*  - A name column value (a JS string) is an integer; the integer order  *)
(*    stands for the string order lodash compares with.                    *)
(***************************************************************************)
EXTENDS Integers, Sequences, FiniteSets, TLC

VARIABLES
    now,        \* Date.now(), in milliseconds
    httpLog,    \* every axios.get issued by the client, in order: [url, at, result]
    api,        \* the PRTGApi method invocation in progress
    defaultTimeout, \* CacheService.defaultTimeout = config.cacheTimeout, in seconds
    cache,      \* CacheService.cache: key -> CacheItem (its DOMAIN is the keys of the map)
    cacheRet,   \* the CacheService call made by the last step, and what it returned
    stored,     \* what the caller last set under each key since the last clear(), and when
    ds,         \* the PRTGDataSource operation in progress (testDatasource or query)
    ctl         \* the QueryEditorController, its requests in flight and its last call

vars == <<now, httpLog, api, defaultTimeout, cache, cacheRet, stored, ds, ctl>>

---------------------------------------------------------------------------
(* Bounds of the model.                                                    *)

MaxLen == 2         \* longest collection a response body carries
MaxRequests == 2    \* HTTP requests a sequence of client calls may issue
MaxTicks == 3       \* clock steps
MaxTargets == 2     \* targets of one query() call

---------------------------------------------------------------------------
(* Values.                                                                 *)

\* A server row: its object id and the value of its name column.
RowNames == {1, 2}
ObjIds == {0, 1}
BaseRows == [objid : ObjIds, name : RowNames]

RECURSIVE SeqsUpTo(_, _)
SeqsUpTo(S, n) ==
    IF n = 0 THEN {<<>>}
    ELSE LET shorter == SeqsUpTo(S, n - 1)
         IN  shorter \cup {Append(s, x) : s \in {t \in shorter : Len(t) = n - 1}, x \in S}

BaseColls == SeqsUpTo(BaseRows, MaxLen)

\* The collection fields processResponse knows, in its priority order.
responseTypes == <<"groups", "devices", "sensors", "channels", "values", "sensordata", "messages">>

\* The name column of the rows a collection field holds.
NameColumn(f) ==
    CASE f = "groups"  -> "group"
      [] f = "devices" -> "device"
      [] f = "sensors" -> "sensor"
      [] OTHER         -> f

\* The rows of base collection c as they appear under field f of a body.
RowsOf(f, c) == [i \in 1..Len(c) |-> [objid |-> c[i].objid, name |-> c[i].name, col |-> NameColumn(f)]]

\* response.data, and every value derived from it.
NoBody == [t |-> "undef"]                    \* undefined
EmptyBody == [t |-> "empty"]                 \* a falsy body: null, "", 0
StrBody(s) == [t |-> "str", s |-> s]
ListBody(rows) == [t |-> "list", rows |-> rows]
\* An object: Version and marker ('prtg-version') are "" when absent; cols maps
\* each field that is present with a truthy value to its rows.
ObjBody(ver, marker, cols) == [t |-> "obj", Version |-> ver, marker |-> marker, cols |-> cols]

Sentinel == "Not enough monitoring data"

Has(d, f) == d.t = "obj" /\ f \in DOMAIN d.cols
\* d[f]
Get(d, f) == IF Has(d, f) THEN ListBody(d.cols[f]) ELSE NoBody
HasVersion(d) == d.t = "obj" /\ d.Version # ""
HasMarker(d) == d.t = "obj" /\ d.marker # ""

\* Error objects.
NoErr == [name |-> "none", message |-> <<>>, code |-> "", details |-> NoBody]
Error(msg) == [name |-> "Error", message |-> msg, code |-> "", details |-> NoBody]

\* The result of a call that returns or throws.
Ret(v) == [ok |-> TRUE, val |-> v, err |-> NoErr]
Throw(e) == [ok |-> FALSE, val |-> NoBody, err |-> e]

\* A settled promise.
Resolved(v) == [st |-> "resolved", val |-> v, err |-> NoErr]
Rejected(e) == [st |-> "rejected", val |-> NoBody, err |-> e]
Unsettled == [st |-> "pending", val |-> NoBody, err |-> NoErr]

StrVal(parts) == [t |-> "string", s |-> parts]
BoolVal(b) == [t |-> "bool", b |-> b]

StartsWith(parts, p) == Len(parts) > 0 /\ parts[1] = p
Contains(parts, p) == \E i \in 1..Len(parts) : parts[i] = p

---------------------------------------------------------------------------
(* services/PRTGError                                                      *)

PRTGError(msg) == [name |-> "PRTGError", message |-> msg, code |-> "", details |-> NoBody]

\* What axios.get does: fulfil with a 2xx response (k = "ok"), reject with an
\* AxiosError that carries the response (k = "http") or none (k = "network"),
\* or reject with an error that is no AxiosError (k = "thrown": a mocked
\* rejection, a cancelled request).
OkResponse(data) == [k |-> "ok", status |-> "200", statusText |-> "OK", data |-> data]
HttpFailure(status, text, data) == [k |-> "http", status |-> status, statusText |-> text, data |-> data]
NetworkFailure == [k |-> "network", status |-> "", statusText |-> "", data |-> NoBody]
ThrownFailure == [k |-> "thrown", status |-> "", statusText |-> "", data |-> NoBody]
NoResponse == [k |-> "none", status |-> "", statusText |-> "", data |-> NoBody]

\* The error a rejected axios.get throws into executeRequest's catch block.
AxiosError(resp) ==
    [name |-> "AxiosError", message |-> <<"Request failed">>, code |-> "", details |-> NoBody,
     response |-> resp]

isAxiosError(e) == e.name = "AxiosError"

fromAxiosError(e) ==
    LET status == IF e.response.status # "" THEN e.response.status ELSE "unknown"
        statusText == IF e.response.statusText # "" THEN e.response.statusText ELSE "Unknown error"
    IN  [name |-> "PRTGError",
         message |-> <<"PRTG API Error (", status, "): ", statusText>>,
         code |-> status,
         details |-> e.response.data]

---------------------------------------------------------------------------
(* Api.ts: the request core                                                *)

\* The first collection field of data, in responseTypes order (0: none).
FirstResponseType(data) ==
    IF \E i \in 1..Len(responseTypes) : Has(data, responseTypes[i])
    THEN CHOOSE i \in 1..Len(responseTypes) :
            /\ Has(data, responseTypes[i])
            /\ \A j \in 1..(i - 1) : ~Has(data, responseTypes[j])
    ELSE 0

\* processResponse that looks for the collection fields before the
\* 'prtg-version' marker.
processResponseFieldsFirst(data) ==
    IF HasVersion(data) THEN Ret(data)
    ELSE IF FirstResponseType(data) # 0
         THEN Ret(Get(data, responseTypes[FirstResponseType(data)]))
    ELSE IF HasMarker(data) THEN Ret(data)
    ELSE IF data = StrBody(Sentinel)
         THEN Throw(Error(<<"Not enough monitoring data.">>))
    ELSE Ret(data)

processResponse(data) ==
    IF HasVersion(data) THEN Ret(data)
    ELSE IF HasMarker(data)
         THEN (IF Has(data, "groups") THEN Ret(Get(data, "groups")) ELSE Ret(data))
    ELSE IF FirstResponseType(data) # 0
         THEN Ret(Get(data, responseTypes[FirstResponseType(data)]))
    ELSE IF data = StrBody(Sentinel)
         THEN Throw(Error(<<"Not enough monitoring data.">>))
    ELSE Ret(data)

\* handleRequestError never returns: it throws what this operator gives.
handleRequestError(e) ==
    IF isAxiosError(e) THEN Throw(fromAxiosError(e))
    ELSE Throw(PRTGError(IF e.message # <<>> THEN e.message ELSE <<"Unknown error">>))

includesTableJson(endpoint) == endpoint \in {"table.json", "table.json?"}

\* The try block of executeRequest, given what axios.get did.
executeRequestTry(endpoint, resp) ==
    IF resp.k \in {"http", "network"} THEN Throw(AxiosError(resp))
    ELSE IF resp.k = "thrown" THEN Throw(Error(<<"Network error">>))
    ELSE IF resp.data.t \in {"empty", "undef"}
         THEN Throw(PRTGError(<<"Response contained no data">>))
    ELSE IF includesTableJson(endpoint) /\ HasMarker(resp.data) THEN Ret(resp.data)
    ELSE processResponse(resp.data)

\* executeRequest whose catch block has no case for the status 403.
executeRequestNoAccessCase(endpoint, resp) ==
    LET tried == executeRequestTry(endpoint, resp)
    IN  IF tried.ok THEN tried ELSE handleRequestError(tried.err)

executeRequest(endpoint, resp) ==
    LET tried == executeRequestTry(endpoint, resp)
    IN  IF tried.ok THEN tried
        ELSE IF isAxiosError(tried.err) /\ tried.err.response.status = "403"
             THEN Throw(PRTGError(<<"Access denied. Please verify authentication and permissions.">>))
        ELSE handleRequestError(tried.err)

\* The URL executeRequest builds: the endpoint and the query parameters in order.
Param(k, v) == [k |-> k, v |-> v]
AuthParams == <<Param("username", "user"), Param("passhash", "hash")>>
Url(endpoint, params) == [endpoint |-> endpoint, params |-> AuthParams \o params]

---------------------------------------------------------------------------
(* Api.ts: sortItems (lodash orderBy, ascending, stable)                   *)

\* item[field]: a row carries the one name column of its table; every other
\* name field reads as undefined.
KeyOf(item, field) == IF item.col = field THEN [def |-> TRUE, v |-> item.name]
                      ELSE [def |-> FALSE, v |-> 0]

\* lodash compareAscending(a, b) < 0: undefined sorts after every value.
SortsBefore(a, b) == a.def /\ (~b.def \/ a.v < b.v)

RECURSIVE InsertStable(_, _, _)
InsertStable(sorted, x, field) ==
    IF sorted = <<>> THEN <<x>>
    ELSE IF SortsBefore(KeyOf(x, field), KeyOf(Head(sorted), field)) THEN <<x>> \o sorted
    ELSE <<Head(sorted)>> \o InsertStable(Tail(sorted), x, field)

RECURSIVE orderByAsc(_, _)
orderByAsc(items, field) ==
    IF items = <<>> THEN <<>>
    ELSE InsertStable(orderByAsc(SubSeq(items, 1, Len(items) - 1), field), items[Len(items)], field)

\* A sort that is not stable: a row goes before the rows of equal name.
RECURSIVE InsertBeforeEqual(_, _, _)
InsertBeforeEqual(sorted, x, field) ==
    IF sorted = <<>> THEN <<x>>
    ELSE IF ~SortsBefore(KeyOf(Head(sorted), field), KeyOf(x, field)) THEN <<x>> \o sorted
    ELSE <<Head(sorted)>> \o InsertBeforeEqual(Tail(sorted), x, field)

RECURSIVE sortItemsUnstable(_, _)
sortItemsUnstable(items, field) ==
    IF items = <<>> THEN <<>>
    ELSE InsertBeforeEqual(sortItemsUnstable(SubSeq(items, 1, Len(items) - 1), field),
                           items[Len(items)], field)

sortItems(items, field) == orderByAsc(items, field)

---------------------------------------------------------------------------
(* Api.ts: the public methods, each as the outcome of its promise given    *)
(* what axios.get did.                                                     *)

\* getVersion returns lastValueFrom(...) without awaiting it, so its try/catch
\* sees no rejection: the promise getVersion returns settles as the pipe does.
getVersion(resp) ==
    LET r == executeRequest("status.json", resp)
    IN  IF r.ok
        THEN Resolved(StrVal(IF HasVersion(r.val) THEN <<r.val.Version>>
                             ELSE IF HasMarker(r.val) THEN <<r.val.marker>>
                             ELSE <<"Unknown Version">>))
        ELSE Rejected(Error(<<"Version query failed: ">> \o r.err.message))

\* !response
Falsy(v) == v.t \in {"undef", "empty"}

\* testAuth with a catchError that rethrows, as getVersion's does.
testAuthRethrows(resp) ==
    LET r == executeRequest("table.json", resp)
    IN  IF r.ok /\ ~Falsy(r.val) THEN Resolved(BoolVal(TRUE))
        ELSE Rejected(Error(<<"Authentication test failed: ">> \o r.err.message))

testAuth(resp) ==
    LET r == executeRequest("table.json", resp)
    IN  IF r.ok /\ ~Falsy(r.val) THEN Resolved(BoolVal(TRUE))
        ELSE Resolved(BoolVal(FALSE))

\* The pipe the four suggest queries share: map (check the collection field,
\* sort it) and catchError (wrap the message).
suggestPipe(resp, field, nameField, noData, prefix) ==
    LET r == executeRequest("table.json", resp)
    IN  IF ~r.ok THEN Rejected(Error(<<prefix>> \o r.err.message))
        ELSE IF ~Has(r.val, field) THEN Rejected(Error(<<prefix, noData>>))
        ELSE Resolved(ListBody(sortItems(r.val.cols[field], nameField)))

performGroupSuggestQuery(resp) ==
    suggestPipe(resp, "groups", "group", "No group data received from PRTG", "Group query failed: ")

performDeviceSuggestQuery(resp) ==
    suggestPipe(resp, "devices", "device", "No device data received from PRTG", "Device query failed: ")

performSensorSuggestQuery(resp) ==
    suggestPipe(resp, "sensors", "sensor", "No sensor data received from PRTG", "Sensor query failed: ")

performChannelSuggestQuery(resp) ==
    suggestPipe(resp, "sensors", "sensor", "No sensor data received from PRTG", "Channel query failed: ")

\* The table.json parameters of a suggest query; a filter is a name (0: none).
columns == "objid,group,device,sensor,channel,active,message,priority,status,status_raw,tags,datetime"

FilterParam(k, name) == IF name # 0 THEN <<Param(k, ToString(name))>> ELSE <<>>

suggestUrl(content, groupFilter, deviceFilter, sensorFilter) ==
    Url("table.json",
        <<Param("content", content), Param("count", "50000"), Param("columns", columns)>>
        \o FilterParam("filter_group", groupFilter)
        \o FilterParam("filter_device", deviceFilter)
        \o FilterParam("filter_sensor", sensorFilter))

\* queryItems[0].sensorId as JavaScript sees it.
UndefinedId == [t |-> "undef", n |-> 0]
NaNId == [t |-> "nan", n |-> 0]
NumId(n) == [t |-> "num", n |-> n]
NumericStrId(n) == [t |-> "numstr", n |-> n]    \* a string such as "7"
TextStrId == [t |-> "text", n |-> 0]            \* a string such as "abc"

\* !sensorId
FalsyId(id) == id.t \in {"undef", "nan"} \/ (id.t = "num" /\ id.n = 0)
\* isNaN(Number(sensorId))
NumberIsNaN(id) == id.t \in {"undef", "nan", "text"}

\* sdate and edate are counted in tenths of a second (a millisecond count of
\* several hundred hours overflows TLC's integers): an hour is 36000 of them.
HourMs == 3600 * 10

\* _.cond whose first two ranges include their lower ends.
avgInclusive(sdate, edate) ==
    LET span == edate - sdate
    IN  IF span >= 12 * HourMs /\ span < 36 * HourMs THEN "300"
        ELSE IF span >= 36 * HourMs /\ span < 745 * HourMs THEN "3600"
        ELSE IF span > 745 * HourMs THEN "86400"
        ELSE "0"

\* _.cond over hours = (edate - sdate) / 1000 / 3600, compared in that unit.
avg(sdate, edate) ==
    LET span == edate - sdate
    IN  IF span > 12 * HourMs /\ span < 36 * HourMs THEN "300"
        ELSE IF span > 36 * HourMs /\ span < 745 * HourMs THEN "3600"
        ELSE IF span > 745 * HourMs THEN "86400"
        ELSE "0"

\* formatDate keeps the timestamp to the second.
formatDate(timestamp) == ToString(timestamp \div 10)

historyUrl(sdate, edate, item) ==
    Url("historicdata.json",
        <<Param("id", ToString(item.sensorId.n)), Param("avg", avg(sdate, edate)),
          Param("sdate", formatDate(sdate)), Param("edate", formatDate(edate)),
          Param("count", "50000"), Param("usecaption", "1"), Param("columns", "datetime,value_")>>
        \o (IF item.channelId # "" /\ item.channelId # "*"
            THEN <<Param("channel", item.channelId)>> ELSE <<>>))

\* performQuerySuggestQuery up to its request: the rejection it ends with
\* before any request, or none.
performQuerySuggestQueryCheck(queries) ==
    IF queries = <<>> \/ FalsyId(queries[1].sensorId)
    THEN Rejected(Error(<<"Invalid query: Missing sensor ID">>))
    ELSE IF NumberIsNaN(queries[1].sensorId)
    THEN Rejected(Error(<<"Historical data query failed: ", "Invalid sensor ID">>))
    ELSE Unsettled

\* performQuerySuggestQuery from the response on.
performQuerySuggestQuery(resp) ==
    LET r == executeRequest("historicdata.json", resp)
    IN  IF ~r.ok THEN Rejected(Error(<<"Historical data query failed: ">> \o r.err.message))
        ELSE IF ~Has(r.val, "histdata") \/ Len(r.val.cols["histdata"]) = 0
        THEN Rejected(Error(<<"Historical data query failed: ", "No historical data received from PRTG">>))
        ELSE Resolved(r.val)

---------------------------------------------------------------------------
(* The client as a state machine: a method is invoked (ApiCall), axios.get *)
(* settles (ApiResponse), the caller takes the outcome (ApiReturn).        *)

NoArgs == [groupFilter |-> 0, deviceFilter |-> 0, sensorFilter |-> 0,
           sdate |-> 0, edate |-> 0, queries |-> <<>>]

IdleApi == [pc |-> "idle", op |-> "none", args |-> NoArgs, resp |-> NoResponse, out |-> Unsettled]

\* The request a method issues first, or the outcome it settles with before
\* issuing any.
Begin(op, args) ==
    CASE op = "getVersion" -> [send |-> TRUE, url |-> Url("status.json", <<>>), out |-> Unsettled]
      [] op = "testAuth"   -> [send |-> TRUE, url |-> Url("table.json", <<>>), out |-> Unsettled]
      [] op = "performGroupSuggestQuery" ->
            [send |-> TRUE, url |-> suggestUrl("groups", 0, 0, 0), out |-> Unsettled]
      [] op = "performDeviceSuggestQuery" ->
            [send |-> TRUE, url |-> suggestUrl("devices", args.groupFilter, 0, 0), out |-> Unsettled]
      [] op = "performSensorSuggestQuery" ->
            [send |-> TRUE, url |-> suggestUrl("sensors", 0, args.deviceFilter, 0), out |-> Unsettled]
      [] op = "performChannelSuggestQuery" ->
            [send |-> TRUE,
             url |-> suggestUrl("sensors", args.groupFilter, args.deviceFilter, args.sensorFilter),
             out |-> Unsettled]
      [] op = "performQuerySuggestQuery" ->
            LET checked == performQuerySuggestQueryCheck(args.queries)
            IN  IF checked.st = "pending"
                THEN [send |-> TRUE, url |-> historyUrl(args.sdate, args.edate, args.queries[1]),
                      out |-> Unsettled]
                ELSE [send |-> FALSE, url |-> Url("", <<>>), out |-> checked]

\* The outcome of a method once its request has settled.
Complete(op, resp) ==
    CASE op = "getVersion" -> getVersion(resp)
      [] op = "testAuth"   -> testAuth(resp)
      [] op = "performGroupSuggestQuery"   -> performGroupSuggestQuery(resp)
      [] op = "performDeviceSuggestQuery"  -> performDeviceSuggestQuery(resp)
      [] op = "performSensorSuggestQuery"  -> performSensorSuggestQuery(resp)
      [] op = "performChannelSuggestQuery" -> performChannelSuggestQuery(resp)
      [] op = "performQuerySuggestQuery"   -> performQuerySuggestQuery(resp)

ApiCall(op, args) ==
    /\ api.pc = "idle"
    /\ LET b == Begin(op, args)
       IN  IF b.send
           THEN /\ Len(httpLog) < MaxRequests
                /\ httpLog' = Append(httpLog, [url |-> b.url, at |-> now, result |-> "inflight"])
                /\ api' = [pc |-> "pending", op |-> op, args |-> args, resp |-> NoResponse,
                           out |-> Unsettled]
           ELSE /\ httpLog' = httpLog
                /\ api' = [pc |-> "settled", op |-> op, args |-> args, resp |-> NoResponse,
                           out |-> b.out]
    /\ UNCHANGED <<now, defaultTimeout, cache, cacheRet, stored, ds, ctl>>

ApiResponse(resp) ==
    /\ api.pc = "pending"
    /\ api' = [api EXCEPT !.pc = "settled", !.resp = resp, !.out = Complete(api.op, resp)]
    /\ httpLog' = [httpLog EXCEPT ![Len(httpLog)].result = resp.k]
    /\ UNCHANGED <<now, defaultTimeout, cache, cacheRet, stored, ds, ctl>>

ApiReturn ==
    /\ api.pc = "settled"
    /\ api' = IdleApi
    /\ UNCHANGED <<now, httpLog, defaultTimeout, cache, cacheRet, stored, ds, ctl>>

\* The clock advances.
TickMs == 500

Tick ==
    /\ now < MaxTicks * TickMs
    /\ now' = now + TickMs
    /\ cacheRet' = [op |-> "none"]
    /\ UNCHANGED <<httpLog, api, defaultTimeout, cache, stored, ds, ctl>>

\* Inputs.
Filters == {0, 1}
SensorIds == {UndefinedId, NaNId, TextStrId, NumId(0), NumId(-1), NumId(7), NumericStrId(7)}
ChannelIds == {"", "*", "2"}
SpanHours == {-5, 0, 5, 12, 20, 36, 100, 745, 1000}
StartHours == {0, 1}
QueryItems == [sensorId : SensorIds, channelId : ChannelIds]

SuggestArgs == {[NoArgs EXCEPT !.groupFilter = g, !.deviceFilter = d, !.sensorFilter = s] :
                    g \in Filters, d \in Filters, s \in Filters}
HistoryArgs == {[NoArgs EXCEPT !.sdate = s * HourMs, !.edate = (s + h) * HourMs, !.queries = q] :
                    s \in StartHours, h \in SpanHours, q \in {<<>>} \cup {<<i>> : i \in QueryItems}}

ArgsOf(op) ==
    CASE op \in {"getVersion", "testAuth", "performGroupSuggestQuery"} -> {NoArgs}
      [] op = "performDeviceSuggestQuery" -> {a \in SuggestArgs : a.deviceFilter = 0 /\ a.sensorFilter = 0}
      [] op = "performSensorSuggestQuery" -> {a \in SuggestArgs : a.groupFilter = 0 /\ a.sensorFilter = 0}
      [] op = "performChannelSuggestQuery" -> SuggestArgs
      [] op = "performQuerySuggestQuery" -> HistoryArgs

ApiOps == {"getVersion", "testAuth", "performGroupSuggestQuery", "performDeviceSuggestQuery",
           "performSensorSuggestQuery", "performChannelSuggestQuery", "performQuerySuggestQuery"}

\* Response bodies: every envelope (Version, prtg-version marker) around the
\* same rows under each field of a field set.
FieldSets == {{}, {"groups"}, {"devices"}, {"sensors"}, {"groups", "devices"},
              {"devices", "sensors"}, {"sensors", "messages"}, {"histdata"}, {"histdata", "sensors"}}
Versions == {"", "24.1"}
ObjBodies == {ObjBody(v, m, [f \in fs |-> RowsOf(f, c)]) :
                  v \in Versions, m \in Versions, fs \in FieldSets, c \in BaseColls}
Bodies == {EmptyBody, StrBody(Sentinel), StrBody("OK")} \cup ObjBodies
Failures == {NetworkFailure, ThrownFailure,
             HttpFailure("403", "Forbidden", StrBody("Forbidden")),
             HttpFailure("500", "Internal Server Error", StrBody("error")),
             HttpFailure("404", "", EmptyBody)}
Responses == Failures \cup {OkResponse(b) : b \in Bodies}

\* What a server answers a historicdata.json request with.
HistoryResponses ==
    {r \in Responses : r.k = "ok" /\ r.data.t = "obj" =>
                          r.data.Version = "" /\ DOMAIN r.data.cols \subseteq {"histdata", "sensors"}}

ResponsesFor(op) == IF op = "performQuerySuggestQuery" THEN HistoryResponses ELSE Responses

Timeouts == {1, 2}

EmptyMap == [k \in {} |-> 0]

\* No query editor is open.
NoCtl == [st |-> "none"]

Init ==
    /\ now = 0
    /\ httpLog = <<>>
    /\ api = IdleApi
    /\ defaultTimeout \in Timeouts
    /\ cache = EmptyMap
    /\ cacheRet = [op |-> "none"]
    /\ stored = EmptyMap
    /\ ds = [op |-> "none"]
    /\ ctl = NoCtl

\* One method invocation on a fresh client, against every response.
NextApi ==
    \/ /\ httpLog = <<>>
       /\ \E op \in ApiOps : \E args \in ArgsOf(op) : ApiCall(op, args)
    \/ \E resp \in ResponsesFor(api.op) : ApiResponse(resp)

SpecApi == Init /\ [][NextApi]_vars

---------------------------------------------------------------------------
(* Properties of the API client (SpecApi).                                 *)

Settled(op) == api.pc = "settled" /\ api.op = op

\* The request failed: axios.get rejected, or the body was empty.
RequestFailed(resp) == resp.k # "ok" \/ resp.data.t \in {"empty", "undef"}

\* C1: getVersion() never rejects: whatever the status.json request did, the
\* promise resolves to a string, and after a failed request the string starts
\* with "ERROR: ".
C1_GetVersionNeverRejects ==
    Settled("getVersion") =>
        /\ api.out.st = "resolved"
        /\ api.out.val.t = "string"
        /\ RequestFailed(api.resp) => StartsWith(api.out.val.s, "ERROR: ")

C6_InvalidSensorIdRejectedBeforeRequest ==
    (api.op = "performQuerySuggestQuery" /\ api.pc # "idle") =>
        LET q == api.args.queries
            missing == q = <<>> \/ q[1].sensorId = UndefinedId
            invalid == ~missing /\ (q[1].sensorId = NumId(-1) \/ NumberIsNaN(q[1].sensorId))
        IN  /\ invalid => /\ httpLog = <<>>
                          /\ api.out.st = "rejected"
                          /\ Contains(api.out.err.message, "Invalid sensor ID")
            /\ missing => /\ httpLog = <<>>
                          /\ api.out = Rejected(Error(<<"Invalid query: Missing sensor ID">>))

FieldOf(op) ==
    CASE op = "performGroupSuggestQuery"  -> "groups"
      [] op = "performDeviceSuggestQuery" -> "devices"
      [] OTHER -> "sensors"

NameFieldOf(op) == NameColumn(FieldOf(op))

PrefixOf(op) ==
    CASE op = "performGroupSuggestQuery"   -> "Group query failed: "
      [] op = "performDeviceSuggestQuery"  -> "Device query failed: "
      [] op = "performSensorSuggestQuery"  -> "Sensor query failed: "
      [] op = "performChannelSuggestQuery" -> "Channel query failed: "

SuggestOps == {"performGroupSuggestQuery", "performDeviceSuggestQuery",
               "performSensorSuggestQuery", "performChannelSuggestQuery"}

\* The server's collection for the suggest query that settled.
ServerCollection == api.resp.data.cols[FieldOf(api.op)]

\* C7: the group and device suggest queries resolve whenever the response
\* body carries their collection field (groups / devices), with or without a
\* prtg-version marker, and fail, with "<Type> query failed: <cause>", only
\* when the field is absent or the request failed.
C7_SuggestResolvesWheneverFieldPresent ==
    (api.pc = "settled" /\ api.op \in {"performGroupSuggestQuery", "performDeviceSuggestQuery"}) =>
        LET present == api.resp.k = "ok" /\ Has(api.resp.data, FieldOf(api.op))
        IN  /\ present => /\ api.out.st = "resolved"
                          /\ api.out.val = ListBody(sortItems(ServerCollection, NameFieldOf(api.op)))
            /\ ~present => /\ api.out.st = "rejected"
                           /\ StartsWith(api.out.err.message, PrefixOf(api.op))

\* out is rows put in ascending name order, rows of equal name in the order
\* they have in rows.
IsStableSortOf(out, rows) ==
    /\ Len(out) = Len(rows)
    /\ \E f \in [1..Len(rows) -> 1..Len(rows)] :
        /\ \A i, j \in 1..Len(rows) : i # j => f[i] # f[j]
        /\ \A i \in 1..Len(rows) : out[i] = rows[f[i]]
        /\ \A i, j \in 1..Len(rows) :
              i < j => \/ out[i].name < out[j].name
                       \/ out[i].name = out[j].name /\ f[i] < f[j]

\* C8: what a successful group, device, sensor or channel suggest query
\* returns is a permutation of the server's collection in ascending order of
\* the name field (group, device, sensor, sensor), rows of equal name in
\* server order.
C8_SuggestResultStablySorted ==
    (api.pc = "settled" /\ api.op \in SuggestOps /\ api.out.st = "resolved") =>
        /\ api.out.val.t = "list"
        /\ IsStableSortOf(api.out.val.rows, ServerCollection)

\* C8's case: the server sent two rows in descending name order and the
\* query returned them swapped.
C8_Witness ==
    /\ api.pc = "settled" /\ api.op \in SuggestOps /\ api.out.st = "resolved"
    /\ Len(ServerCollection) = 2
    /\ ServerCollection[1].name > ServerCollection[2].name
    /\ api.out.val.rows = <<ServerCollection[2], ServerCollection[1]>>

---------------------------------------------------------------------------
(* A client serving calls one after another while the clock runs           *)
(* (SpecClient).                                                           *)

ClientOps == {"performGroupSuggestQuery", "performDeviceSuggestQuery"}
ClientResponses ==
    {NetworkFailure,
     OkResponse(ObjBody("", "24.1", [f \in {"groups", "devices"} |->
                                        RowsOf(f, <<[objid |-> 1, name |-> 1]>>)]))}

NextClient ==
    \/ \E op \in ClientOps : ApiCall(op, NoArgs)
    \/ \E resp \in ClientResponses : ApiResponse(resp)
    \/ ApiReturn
    \/ Tick

SpecClient == Init /\ [][NextClient]_vars

\* C9: the client consults its cache before the network: of two requests for
\* the same URL issued within the cache timeout, the first of them answered,
\* only the first goes out as an HTTP request.
C9_CacheConsultedBeforeNetwork ==
    \A i, j \in 1..Len(httpLog) :
        (/\ i < j
         /\ httpLog[i].url = httpLog[j].url
         /\ httpLog[i].result = "ok"
         /\ httpLog[j].at - httpLog[i].at <= defaultTimeout * 1000) => FALSE

---------------------------------------------------------------------------
(* services/CacheService                                                   *)

Null == [t |-> "null"]
Data(v) == [t |-> "data", v |-> v]

isExpiredAtBoundary(entry) == now - entry.timestamp >= entry.timeout * 1000

isExpired(entry) == now - entry.timestamp > entry.timeout * 1000

Without(map, key) == [k \in DOMAIN map \ {key} |-> map[k]]
With(map, key, item) == [k \in DOMAIN map \cup {key} |-> IF k = key THEN item ELSE map[k]]

\* has(key): what it returns and the map it leaves.
isCacheValid(key) ==
    IF key \notin DOMAIN cache THEN [ret |-> FALSE, cache |-> cache]
    ELSE IF now - cache[key].timestamp > defaultTimeout * 1000
         THEN [ret |-> FALSE, cache |-> Without(cache, key)]
    ELSE [ret |-> TRUE, cache |-> cache]

\* get(key)
getCachedData(key) ==
    IF key \in DOMAIN cache /\ ~isExpired(cache[key]) THEN Data(cache[key].data) ELSE Null

\* set(key, data): the map it leaves.
setCacheData(key, data) ==
    IF key = "" THEN cache
    ELSE With(cache, key, [data |-> data, timestamp |-> now, timeout |-> defaultTimeout])

CacheSet(key, data) ==
    /\ cache' = setCacheData(key, data)
    /\ cacheRet' = [op |-> "set", key |-> key, ret |-> Null]
    /\ stored' = IF key = "" THEN stored ELSE With(stored, key, [data |-> data, at |-> now])
    /\ UNCHANGED <<now, httpLog, api, defaultTimeout, ds, ctl>>

CacheGet(key) ==
    /\ cacheRet' = [op |-> "get", key |-> key, ret |-> getCachedData(key)]
    /\ UNCHANGED <<now, httpLog, api, defaultTimeout, cache, stored, ds, ctl>>

CacheHas(key) ==
    /\ cacheRet' = [op |-> "has", key |-> key, ret |-> BoolVal(isCacheValid(key).ret)]
    /\ cache' = isCacheValid(key).cache
    /\ UNCHANGED <<now, httpLog, api, defaultTimeout, stored, ds, ctl>>

CacheClear ==
    /\ cache' = EmptyMap
    /\ cacheRet' = [op |-> "clear", key |-> "", ret |-> Null]
    /\ stored' = EmptyMap
    /\ UNCHANGED <<now, httpLog, api, defaultTimeout, ds, ctl>>

CacheKeys == {"", "a", "b"}
CacheData == {"x", "y"}

NextCache ==
    \/ \E key \in CacheKeys, data \in CacheData : CacheSet(key, data)
    \/ \E key \in CacheKeys : CacheGet(key)
    \/ \E key \in CacheKeys : CacheHas(key)
    \/ CacheClear
    \/ Tick

SpecCache == Init /\ [][NextCache]_vars

\* The entry last set under key is still valid: it was set, not cleared
\* since, and no more than the timeout has elapsed.
StillValid(key) == key \in DOMAIN stored /\ now - stored[key].at <= defaultTimeout * 1000

\* C10: for every key and timeout t, get(k) returns the value last set under
\* k and has(k) is true exactly while now - timestamp <= t * 1000 (so also
\* with no time elapsed); once more than t seconds have passed since the last
\* set(k, .), get(k) returns null and has(k) false; a later set restarts the
\* timeout.
C10_CacheEntryValidForTimeout ==
    /\ cacheRet.op = "get" =>
          cacheRet.ret = IF StillValid(cacheRet.key) THEN Data(stored[cacheRet.key].data) ELSE Null
    /\ cacheRet.op = "has" => cacheRet.ret = BoolVal(StillValid(cacheRet.key))

\* C10's case: a key set again after its first entry could have expired, and
\* read back exactly at the end of the restarted timeout.
C10_Witness ==
    /\ cacheRet.op = "get"
    /\ cacheRet.key \in DOMAIN stored
    /\ stored[cacheRet.key].at > 0
    /\ now - stored[cacheRet.key].at = defaultTimeout * 1000
    /\ cacheRet.ret = Data(stored[cacheRet.key].data)

---------------------------------------------------------------------------
(* Api.ts: getGroupInfo / getDeviceInfo / getSensorInfo                    *)

\* The first item whose name field equals name (0: none), as Array.find.
FindByName(items, field, name) ==
    IF \E i \in 1..Len(items) : KeyOf(items[i], field) = [def |-> TRUE, v |-> name]
    THEN CHOOSE i \in 1..Len(items) :
            /\ KeyOf(items[i], field) = [def |-> TRUE, v |-> name]
            /\ \A j \in 1..(i - 1) : KeyOf(items[j], field) # [def |-> TRUE, v |-> name]
    ELSE 0

\* The try/catch the three info methods share; here the suggest query is
\* awaited, so its rejection is caught and wrapped.
infoOf(suggested, field, name, notFound, prefix) ==
    IF suggested.st = "rejected" THEN Rejected(Error(<<prefix>> \o suggested.err.message))
    ELSE IF FindByName(suggested.val.rows, field, name) = 0
    THEN Rejected(Error(<<prefix, notFound, ToString(name)>>))
    ELSE Resolved(suggested.val.rows[FindByName(suggested.val.rows, field, name)])

getGroupInfo(groupName, resp) ==
    infoOf(performGroupSuggestQuery(resp), "group", groupName,
           "Group not found: ", "Group info retrieval failed: ")

getDeviceInfo(deviceName, resp) ==
    infoOf(performDeviceSuggestQuery(resp), "device", deviceName,
           "Device not found: ", "Device info retrieval failed: ")

getSensorInfo(sensorName, resp) ==
    infoOf(performSensorSuggestQuery(resp), "sensor", sensorName,
           "Sensor not found: ", "Sensor info retrieval failed: ")

---------------------------------------------------------------------------
(* datasource.ts: testDatasource                                           *)

TestResult(status, message, detail, verbose) ==
    [status |-> status, message |-> message,
     details |-> [message |-> detail, verboseMessage |-> verbose]]

\* A result that reports success whatever testAuth said.
testDatasourceIgnoresAuth(version, auth) ==
    IF version.st = "rejected"
    THEN TestResult("error", <<"Connection failed">>, <<"Could not connect to PRTG server">>,
                    version.err.message)
    ELSE TestResult("success", <<"Successfully connected to PRTG ">> \o version.val.s,
                    <<"Connected to PRTG server">>, <<"Version: ">> \o version.val.s)

\* What testDatasource resolves with, given how getVersion settled and, if it
\* was called, how testAuth did.
testDatasourceResult(version, auth) ==
    IF version.st = "rejected"
    THEN TestResult("error", <<"Connection failed">>, <<"Could not connect to PRTG server">>,
                    version.err.message)
    ELSE IF auth.st = "rejected"
    THEN TestResult("error", <<"Connection failed">>, <<"Could not connect to PRTG server">>,
                    auth.err.message)
    ELSE IF ~auth.val.b
    THEN TestResult("error", <<"Authentication failed">>,
                    <<"Failed to authenticate with PRTG server">>,
                    <<"Please check your credentials and try again">>)
    ELSE TestResult("success", <<"Successfully connected to PRTG ">> \o version.val.s,
                    <<"Connected to PRTG server">>, <<"Version: ">> \o version.val.s)

IdleDs == [op |-> "none"]

TestStart ==
    /\ ds = IdleDs
    /\ ds' = [op |-> "testDatasource", pc |-> "getVersion", calls |-> <<"getVersion">>,
              version |-> Unsettled, auth |-> Unsettled, out |-> Unsettled]
    /\ UNCHANGED <<now, httpLog, api, defaultTimeout, cache, cacheRet, stored, ctl>>

\* await this.api.getVersion() settles: a rejection goes to the catch block,
\* otherwise testAuth is called.
TestVersionSettles(resp) ==
    /\ ds.op = "testDatasource" /\ ds.pc = "getVersion"
    /\ LET version == getVersion(resp)
       IN  IF version.st = "rejected"
           THEN ds' = [ds EXCEPT !.pc = "done", !.version = version,
                                 !.out = Resolved(testDatasourceResult(version, Unsettled))]
           ELSE ds' = [ds EXCEPT !.pc = "testAuth", !.version = version,
                                 !.calls = Append(@, "testAuth")]
    /\ UNCHANGED <<now, httpLog, api, defaultTimeout, cache, cacheRet, stored, ctl>>

TestAuthSettles(resp) ==
    /\ ds.op = "testDatasource" /\ ds.pc = "testAuth"
    /\ LET auth == testAuth(resp)
       IN  ds' = [ds EXCEPT !.pc = "done", !.auth = auth,
                            !.out = Resolved(testDatasourceResult(ds.version, auth))]
    /\ UNCHANGED <<now, httpLog, api, defaultTimeout, cache, cacheRet, stored, ctl>>

---------------------------------------------------------------------------
(* datasource.ts: query                                                    *)

\* A target's state holds the API calls it made, how its info call settled,
\* the history data it got and the frame it made of them.
\* A selector name is 0 when empty; WildcardName is '*', the name of no row.
\* The name of valueSelection is the sequence of its parts between commas,
\* each with or without blanks around it; '' is <<>>.
WildcardName == 1 + Cardinality(RowNames)
OrWildcard(name) == IF name = 0 THEN WildcardName ELSE name

Part(s, blanks) == [s |-> s, blanks |-> blanks]

Target(queryType, property, group, device, sensor, value) ==
    [queryType |-> queryType, propertySelection |-> property, groupSelection |-> group,
     deviceSelection |-> device, sensorSelection |-> sensor, channelSelection |-> "*",
     valueSelection |-> value, filterPropertySelection |-> ""]

\* The time range of the request, in the unit of sdate and edate.
RangeFrom == 0
RangeTo == 20 * HourMs

\* A field of a frame: its name and the number of its values.
Field(name, length) == [name |-> name, length |-> length]

NoFrame == [refId |-> 0, name |-> "", fields |-> <<>>, points |-> 0]
NoTarget == [pc |-> "null", calls |-> <<>>, info |-> Unsettled, frame |-> NoFrame,
             histData |-> <<>>, err |-> NoErr, late |-> FALSE]

\* The target's async function up to its first await: the API call it waits
\* for, or null at once.
targetStart(target) ==
    IF target.queryType \in {"text", "raw"}
    THEN CASE target.propertySelection = "group"  -> [NoTarget EXCEPT !.pc = "info", !.calls = <<"getGroupInfo">>]
           [] target.propertySelection = "device" -> [NoTarget EXCEPT !.pc = "info", !.calls = <<"getDeviceInfo">>]
           [] target.propertySelection = "sensor" -> [NoTarget EXCEPT !.pc = "info", !.calls = <<"getSensorInfo">>]
           [] OTHER -> NoTarget
    ELSE IF target.valueSelection = <<>> THEN NoTarget
    ELSE IF target.sensorSelection = 0 THEN NoTarget
    ELSE [NoTarget EXCEPT !.pc = "info", !.calls = <<"getSensorInfo">>]

\* The info call of a target, settled by resp.
targetInfo(target, resp) ==
    IF target.queryType \in {"text", "raw"}
    THEN CASE target.propertySelection = "group"  -> getGroupInfo(OrWildcard(target.groupSelection), resp)
           [] target.propertySelection = "device" -> getDeviceInfo(OrWildcard(target.deviceSelection), resp)
           [] target.propertySelection = "sensor" -> getSensorInfo(OrWildcard(target.sensorSelection), resp)
    ELSE getSensorInfo(target.sensorSelection, resp)

\* The filter property as the text branch defaults it, in every mode.
filterPropertyOfText(target) ==
    IF target.filterPropertySelection # "" THEN target.filterPropertySelection
    ELSE "status"

filterProperty(target) ==
    IF target.filterPropertySelection # "" THEN target.filterPropertySelection
    ELSE IF target.queryType = "text" THEN "status" ELSE "status_raw"

\* A metrics target that asks for the history of whatever sensor it found.
targetAfterInfoAnyId(refId, target, st, info) ==
    IF target.queryType \in {"text", "raw"}
    THEN IF info.st = "rejected" THEN [st EXCEPT !.pc = "rejected", !.err = info.err]
         ELSE [st EXCEPT !.pc = "frame",
                         !.frame = [refId |-> refId,
                                    name |-> <<"PRTG ", target.propertySelection, " ", filterProperty(target)>>,
                                    fields |-> <<Field("Time", 1), Field(filterProperty(target), 1)>>,
                                    points |-> 1]]
    ELSE IF info.st = "rejected" THEN [st EXCEPT !.pc = "null"]
    ELSE [st EXCEPT !.pc = "history", !.calls = Append(@, "performQuerySuggestQuery")]

\* The target's async function from its info record on. A text or raw target
\* awaits the info call outside any try block: its rejection is the target's.
\* A metrics target catches it and gives null.
targetAfterInfo(refId, target, st, info) ==
    IF target.queryType \in {"text", "raw"}
    THEN IF info.st = "rejected" THEN [st EXCEPT !.pc = "rejected", !.err = info.err]
         ELSE [st EXCEPT !.pc = "frame",
                         !.frame = [refId |-> refId,
                                    name |-> <<"PRTG ", target.propertySelection, " ", filterProperty(target)>>,
                                    fields |-> <<Field("Time", 1), Field(filterProperty(target), 1)>>,
                                    points |-> 1]]
    ELSE IF info.st = "rejected" THEN [st EXCEPT !.pc = "null"]
    ELSE IF info.val.objid = 0 THEN [st EXCEPT !.pc = "null"]
    ELSE IF performQuerySuggestQueryCheck(<<[sensorId |-> NumId(info.val.objid),
                                             channelId |-> target.channelSelection]>>).st = "rejected"
    THEN [st EXCEPT !.pc = "null"]
    ELSE [st EXCEPT !.pc = "history", !.calls = Append(@, "performQuerySuggestQuery")]

\* A history point: its datetime and its other columns in key order, each
\* with a value that parses to a number or not.
Column(key, numeric) == [key |-> key, numeric |-> numeric]
Point(datetime, others) == [datetime |-> datetime, columns |-> others]

\* Object.keys(firstPoint).filter((key) => key !== 'datetime')
availableMetrics(firstPoint) == [i \in 1..Len(firstPoint.columns) |-> firstPoint.columns[i].key]

\* name.split(',').map((v) => v.trim())
splitTrim(name) == [i \in 1..Len(name) |-> name[i].s]

\* The selection without its fallback to every column.
selectedValuesNoFallback(name, available) ==
    SelectSeq(splitTrim(name), LAMBDA v : \E i \in 1..Len(available) : available[i] = v)

\* The parts of the name that are columns; every column when none is.
selectedValues(name, available) ==
    LET named == SelectSeq(splitTrim(name), LAMBDA v : \E i \in 1..Len(available) : available[i] = v)
    IN  IF Len(named) = 0 THEN available ELSE named

\* The values of a metric: those of the points that are numbers.
metricValues(histData, metric) ==
    SelectSeq(histData, LAMBDA item : \E i \in 1..Len(item.columns) :
                                          item.columns[i] = Column(metric, TRUE))

\* [group, device, sensor] compacted, or 'PRTG Data'.
frameName(target) ==
    LET names == SelectSeq(<<target.groupSelection, target.deviceSelection, target.sensorSelection>>,
                           LAMBDA name : name # 0)
    IN  IF names = <<>> THEN <<"PRTG Data">> ELSE [i \in 1..Len(names) |-> ToString(names[i])]

\* A metrics target from its history response on.
targetAfterHistory(refId, target, st, history) ==
    IF history.st = "rejected" THEN [st EXCEPT !.pc = "null"]
    ELSE IF ~Has(history.val, "histdata") \/ Len(history.val.cols["histdata"]) = 0
    THEN [st EXCEPT !.pc = "null"]
    ELSE LET histData == history.val.cols["histdata"]
             selected == selectedValues(target.valueSelection, availableMetrics(histData[1]))
         IN  [st EXCEPT !.pc = "frame",
                        !.histData = histData,
                        !.frame = [refId |-> refId, name |-> frameName(target),
                                   fields |-> <<Field("Time", Len(histData))>> \o
                                              [i \in 1..Len(selected) |->
                                                  Field(selected[i],
                                                        Len(metricValues(histData, selected[i])))],
                                   points |-> Len(histData)]]

RECURSIVE FramesOf(_)
FramesOf(t) ==
    IF t = <<>> THEN <<>>
    ELSE (IF Head(t).pc = "frame" THEN <<Head(t).frame>> ELSE <<>>) \o FramesOf(Tail(t))

\* await Promise.all(promises) and what follows it: the catch block as soon as
\* one target has rejected, the filtered frames once all have resolved.
queryReturn(t) ==
    IF \E i \in 1..Len(t) : t[i].pc = "rejected"
    THEN Resolved([data |-> <<>>, state |-> "Error"])
    ELSE IF \A i \in 1..Len(t) : t[i].pc \in {"frame", "null"}
    THEN Resolved([data |-> FramesOf(t),
                   state |-> IF Len(FramesOf(t)) > 0 THEN "Done" ELSE "Error"])
    ELSE Unsettled

\* query() has returned for good; a target that settles later is late.
Returned(ret, t) == IF ret.st # "pending" THEN ret ELSE queryReturn(t)

\* What the server answers a request for one kind of content: no answer, or a
\* table of that content. Every row carries a well-formed datetime.
DsCollections == {<<>>, <<[objid |-> 1, name |-> 1]>>, <<[objid |-> 0, name |-> 1]>>,
                  <<[objid |-> 1, name |-> 2]>>}

DsResponses(content) ==
    {NetworkFailure} \cup
    {OkResponse(ObjBody("", "24.1", [f \in {content} |-> RowsOf(f, c)])) : c \in DsCollections}

ContentOf(target) ==
    IF target.queryType \in {"text", "raw"} /\ target.propertySelection \in {"group", "device"}
    THEN target.propertySelection \o "s"
    ELSE "sensors"

QueryStart(targets) ==
    /\ ds = IdleDs
    /\ LET t == [i \in 1..Len(targets) |-> targetStart(targets[i])]
       IN  ds' = [op |-> "query", targets |-> targets, t |-> t, ret |-> queryReturn(t)]
    /\ UNCHANGED <<now, httpLog, api, defaultTimeout, cache, cacheRet, stored, ctl>>

TargetInfoSettles(i, resp) ==
    /\ ds.op = "query" /\ i \in 1..Len(ds.t) /\ ds.t[i].pc = "info"
    /\ resp \in DsResponses(ContentOf(ds.targets[i]))
    /\ LET info == targetInfo(ds.targets[i], resp)
           st == [targetAfterInfo(i, ds.targets[i], ds.t[i], info)
                    EXCEPT !.late = ds.ret.st # "pending", !.info = info]
           t == [ds.t EXCEPT ![i] = st]
       IN  ds' = [ds EXCEPT !.t = t, !.ret = Returned(ds.ret, t)]
    /\ UNCHANGED <<now, httpLog, api, defaultTimeout, cache, cacheRet, stored, ctl>>

TargetHistorySettles(i, resp) ==
    /\ ds.op = "query" /\ i \in 1..Len(ds.t) /\ ds.t[i].pc = "history"
    /\ LET st == [targetAfterHistory(i, ds.targets[i], ds.t[i], performQuerySuggestQuery(resp))
                    EXCEPT !.late = ds.ret.st # "pending"]
           t == [ds.t EXCEPT ![i] = st]
       IN  ds' = [ds EXCEPT !.t = t, !.ret = Returned(ds.ret, t)]
    /\ UNCHANGED <<now, httpLog, api, defaultTimeout, cache, cacheRet, stored, ctl>>

\* The caller has the result and no request is left in flight.
DsReturn ==
    /\ \/ ds.op = "testDatasource" /\ ds.pc = "done"
       \/ /\ ds.op = "query" /\ ds.ret.st # "pending"
          /\ \A i \in 1..Len(ds.t) : ds.t[i].pc \in {"frame", "null", "rejected"}
    /\ ds' = IdleDs
    /\ UNCHANGED <<now, httpLog, api, defaultTimeout, cache, cacheRet, stored, ctl>>

\* Inputs.
TargetConfigs ==
    {Target("text", "sensor", 0, 0, 1, <<>>),     \* a sensor the server has
     Target("text", "sensor", 0, 0, 0, <<>>),     \* no sensor selected: '*'
     Target("text", "", 0, 0, 1, <<>>),           \* no property selected
     Target("raw", "group", 1, 0, 0, <<>>),
     Target("raw", "device", 0, 2, 0, <<>>),
     [Target("text", "device", 0, 1, 0, <<>>) EXCEPT !.filterPropertySelection = "tags"],
     Target("metrics", "", 1, 1, 1, <<Part("value", FALSE)>>),
     Target("metrics", "", 1, 1, 1, <<Part("coverage", FALSE), Part("missing", TRUE)>>),
     Target("metrics", "", 1, 1, 1, <<>>),        \* no value selected
     Target("metrics", "", 1, 1, 0, <<Part("value", FALSE)>>)}     \* no sensor selected

\* What the server answers a historicdata.json request with: no answer, no
\* point, points with one or two columns, and a point without a number.
HistoryData ==
    {<<>>,
     <<Point(1, <<Column("value", TRUE)>>)>>,
     <<Point(1, <<Column("value", TRUE), Column("coverage", TRUE)>>),
       Point(2, <<Column("value", FALSE), Column("coverage", TRUE)>>)>>}
DsHistoryResponses ==
    {NetworkFailure} \cup
    {OkResponse(ObjBody("", "24.1", [f \in {"histdata"} |-> histData])) : histData \in HistoryData}

InfoResponses == DsResponses("groups") \cup DsResponses("devices") \cup DsResponses("sensors")

TestResponses ==
    DsResponses("sensors") \cup {HttpFailure("403", "Forbidden", StrBody("Forbidden")),
                      OkResponse(EmptyBody),
                      OkResponse(ObjBody("24.1", "", EmptyMap)),
                      OkResponse(ObjBody("", "", EmptyMap))}

NextDs ==
    \/ TestStart
    \/ \E resp \in TestResponses : TestVersionSettles(resp)
    \/ \E resp \in TestResponses : TestAuthSettles(resp)
    \/ \E targets \in SeqsUpTo(TargetConfigs, MaxTargets) : QueryStart(targets)
    \/ \E i \in 1..MaxTargets : \E resp \in DsHistoryResponses : TargetHistorySettles(i, resp)
    \/ \E i \in 1..MaxTargets : \E resp \in InfoResponses : TargetInfoSettles(i, resp)
    \/ DsReturn

SpecDs == Init /\ [][NextDs]_vars

---------------------------------------------------------------------------
(* Claims about the datasource                                             *)

TestDone == ds.op = "testDatasource" /\ ds.pc = "done"

QueryReturned == ds.op = "query" /\ ds.ret.st # "pending"

\* Target i resolved with a frame before query() returned.
Produced(i) == ds.t[i].pc = "frame" /\ ~ds.t[i].late

\* C4: the failure of one target, in any mode, does not abort its siblings:
\* the data query() returns holds the frame of every target whose own
\* resolution succeeded.
C4_TargetFailureIsolated ==
    QueryReturned =>
        \A i \in 1..Len(ds.t) :
            Produced(i) => \E k \in 1..Len(ds.ret.val.data) : ds.ret.val.data[k] = ds.t[i].frame

\* C5: query() never rejects; its state is Done exactly when at least one
\* target produced a frame; with no targets, or with every target failed or
\* skipped, it resolves with no data and state Error.
C5_QueryStateDoneIffFrame ==
    QueryReturned =>
        /\ ds.ret.st = "resolved"
        /\ ds.ret.val.state = "Done" <=> \E i \in 1..Len(ds.t) : Produced(i)
        /\ (\A i \in 1..Len(ds.t) : ~Produced(i)) =>
                ds.ret.val.data = <<>> /\ ds.ret.val.state = "Error"

---------------------------------------------------------------------------
(* Lazy expiry of the cache (SpecCache).                                   *)

\* C11: expiry is effective on any access: after has(key) or get(key), no
\* expired entry is left under key in the map.
C11_ExpiredEntryEvictedOnAccess ==
    cacheRet.op \in {"get", "has"} =>
        (cacheRet.key \in DOMAIN cache => ~isExpired(cache[cacheRet.key]))

---------------------------------------------------------------------------
(* Api.ts: performValueSuggestQuery                                        *)

\* Both phases of performValueSuggestQuery: the channel suggest query settled
\* by sensorsResp, then the values request settled by valuesResp. Every
\* failure ends in the catch block, which returns [].
performValueSuggestQuery(channelFilter, sensorsResp, valuesResp) ==
    IF channelFilter = <<>> THEN Resolved(ListBody(<<>>))
    ELSE LET res == performChannelSuggestQuery(sensorsResp)
         IN  IF res.st = "rejected" THEN Resolved(ListBody(<<>>))
             ELSE IF Len(res.val.rows) = 0 \/ res.val.rows[1].objid = 0
             THEN Resolved(ListBody(<<>>))
             ELSE LET response == executeRequest("table.json", valuesResp)
                  IN  IF ~response.ok THEN Resolved(ListBody(<<>>))
                      ELSE IF ~Has(response.val, "values") \/ Len(response.val.cols["values"]) = 0
                      THEN Resolved(ListBody(<<>>))
                      ELSE Resolved(ListBody(response.val.cols["values"]))

\* The sensor id of the server's first row, whatever its place after sorting.
sensorIdUnsorted(sensorsResp) ==
    IF sensorsResp.k = "ok" /\ Has(sensorsResp.data, "sensors")
       /\ Len(sensorsResp.data.cols["sensors"]) > 0
    THEN sensorsResp.data.cols["sensors"][1].objid
    ELSE 0

\* res?.[0]?.objid when the channel suggest query has settled: 0 when the
\* query failed or gave no first sensor with an object id.
sensorIdOf(sensorsResp) ==
    LET res == performChannelSuggestQuery(sensorsResp)
    IN  IF res.st = "rejected" \/ Len(res.val.rows) = 0 THEN 0 ELSE res.val.rows[1].objid

\* The values request of performValueSuggestQuery.
valuesUrl(sensorId) ==
    Url("table.json",
        <<Param("content", "values"), Param("columns", "value_,datetime"),
          Param("usecaption", "true"), Param("output", "json"), Param("count", "1"),
          Param("id", ToString(sensorId))>>)

---------------------------------------------------------------------------
(* Api.ts: getMessages                                                     *)
(*                                                                         *)
(* A message row carries datetime_raw as whole days and half seconds (or   *)
(* NoDate), parent, type and message as strings ("" when missing), its  *)
(* status and its tags, each tag with or without blanks around it.         *)

\* A message without datetime_raw: its timestamp is NaN.
NoDate == [missing |-> TRUE]

OleEpochDays == 25569
DaySeconds == 86400

\* Math.round((datetime_raw - 25569) * 86400): a half second rounds up.
messageTimestamp(datetime_raw) ==
    (datetime_raw.days - OleEpochDays) * DaySeconds + (datetime_raw.half + 1) \div 2

\* formatMessageText
formatMessageText(message) ==
    IF message.parent = "" \/ message.type = "" \/ message.message = ""
    THEN <<"<p>No message details available</p>">>
    ELSE <<"<p>", message.parent, " (", message.type, ") Message:<br>", message.message, "</p>">>

\* What the map callback of getMessages makes of a message that passed its
\* checks.
messageEntry(message) ==
    [time |-> messageTimestamp(message.datetime_raw) * 1000,
     title |-> message.status,
     text |-> formatMessageText(message),
     tags |-> [i \in 1..Len(message.tags) |-> message.tags[i].s]]

\* The checks of the map callback that let the upper bound itself through.
messageKeptToInclusive(message, fromTime, toTime) ==
    /\ message.datetime_raw # NoDate
    /\ message.parent # "" /\ message.type # "" /\ message.message # ""
    /\ ~(messageTimestamp(message.datetime_raw) <= fromTime
         \/ messageTimestamp(message.datetime_raw) > toTime)

\* The checks of the map callback: null for a message without a timestamp,
\* parent, type or message, and for one at or outside a bound.
messageKept(message, fromTime, toTime) ==
    /\ message.datetime_raw # NoDate
    /\ message.parent # "" /\ message.type # "" /\ message.message # ""
    /\ ~(messageTimestamp(message.datetime_raw) <= fromTime
         \/ messageTimestamp(message.datetime_raw) >= toTime)

\* getMessages, given what axios.get did: what executeRequest returns is
\* mapped only when it is an array.
getMessages(fromTime, toTime, resp) ==
    LET r == executeRequest("table.json", resp)
    IN  IF ~r.ok THEN Rejected(Error(<<"Message retrieval failed: ">> \o r.err.message))
        ELSE IF r.val.t # "list" THEN Resolved(ListBody(<<>>))
        ELSE LET kept == SelectSeq(r.val.rows, LAMBDA m : messageKept(m, fromTime, toTime))
             IN  Resolved(ListBody([i \in 1..Len(kept) |-> messageEntry(kept[i])]))

---------------------------------------------------------------------------
(* utils/maskingUtils.ts                                                   *)
(*                                                                         *)
(* A value is null, a number, a string, an array or an object with its     *)
(* keys in order. A string is a sequence of pieces: plain text, or a        *)
(* 'key=value' piece with the character before it ('?', '&' or none).      *)

MASKED_VALUE == "****"

NumberValue(n) == [t |-> "number", n |-> n]
Plain(text) == [piece |-> "text", text |-> text]
QueryParam(before, key, value) == [piece |-> "param", before |-> before, key |-> key, value |-> value]
StringValue(pieces) == [t |-> "string", pieces |-> pieces]
ArrayValue(items) == [t |-> "array", items |-> items]
Entry(key, value) == [key |-> key, value |-> value]
ObjectValue(entries) == [t |-> "object", entries |-> entries]

MaskedString == StringValue(<<Plain(MASKED_VALUE)>>)

\* String.prototype.toLowerCase for the keys of the model.
toLowerCase(key) ==
    CASE key = "passwordHash" -> "passwordhash"
      [] key = "Password"     -> "password"
      [] OTHER                -> key

sensitiveKeys == {"passhash", "passwordHash", "password"}

\* A piece after url.replace(/([&?]passhash=)[^&]+/g, '$1****'): the value of
\* a passhash parameter that follows '&' or '?' and is not empty.
maskPiece(p) ==
    IF p.piece = "param" /\ p.before \in {"&", "?"} /\ p.key = "passhash" /\ p.value # ""
    THEN [p EXCEPT !.value = MASKED_VALUE]
    ELSE p

\* maskPasshash(url)
maskPasshash(url) == StringValue([i \in 1..Len(url.pieces) |-> maskPiece(url.pieces[i])])

\* !obj: null, 0 and ''.
NotObj(obj) == obj = Null \/ obj = NumberValue(0) \/ obj = StringValue(<<>>)

\* typeof obj === 'object': objects, arrays and null.
TypeofObject(obj) == obj.t \in {"object", "array", "null"}

\* maskSensitiveData(obj): the entries of an object, and the items of an
\* array under their indices, are reduced into a new object or array.
RECURSIVE maskSensitiveData(_)
maskSensitiveData(obj) ==
    IF NotObj(obj) THEN obj
    ELSE IF obj.t = "string" THEN maskPasshash(obj)
    ELSE IF obj.t = "object"
    THEN ObjectValue([i \in 1..Len(obj.entries) |->
            LET key == obj.entries[i].key
                value == obj.entries[i].value
            IN  Entry(key,
                      IF toLowerCase(key) \in sensitiveKeys THEN MaskedString
                      ELSE IF TypeofObject(value) THEN maskSensitiveData(value)
                      ELSE IF value.t = "string" THEN maskPasshash(value)
                      ELSE value)])
    ELSE IF obj.t = "array"
    THEN ArrayValue([i \in 1..Len(obj.items) |->
            IF TypeofObject(obj.items[i]) THEN maskSensitiveData(obj.items[i])
            ELSE IF obj.items[i].t = "string" THEN maskPasshash(obj.items[i])
            ELSE obj.items[i]])
    ELSE obj

---------------------------------------------------------------------------
(* QueryEditorController.ts                                                *)
(*                                                                         *)
(* A selector name is a string in parts: '' is <<>>, '*' is <<"*">>, a     *)
(* template variable is <<"$", variable>>, the name of a server row is the *)
(* decimal string of its name column. An optional value is a record, or    *)
(* Undefined.                                                              *)

Undefined == [undefined |-> TRUE]

AllName == <<"*">>
Templated(variable) == <<"$", variable>>
NameOf(n) == <<ToString(n)>>

Levels == <<"group", "device", "sensor", "channel", "value">>
LevelSet == {Levels[i] : i \in 1..Len(Levels)}

ListOf(level) == level \o "List"
SelectionOf(level) == level \o "Selection"

\* The keys of a target, in the order the host writes them; init() appends
\* its defaults and validationErrors.
TargetKeys == <<"queryType", "options", "groupSelection", "deviceSelection", "sensorSelection",
                "channelSelection", "valueSelection", "propertySelection",
                "filterPropertySelection", "defaults", "validationErrors">>

\* A target as the host hands it to the constructor.
HostTarget(group, device, sensor, channel, value, property, filter) ==
    [queryType |-> "metrics",
     options |-> [mode |-> "metrics"],
     groupSelection |-> [name |-> group],
     deviceSelection |-> [name |-> device],
     sensorSelection |-> [name |-> sensor],
     channelSelection |-> [name |-> channel],
     valueSelection |-> [name |-> value],
     propertySelection |-> [name |-> property],
     filterPropertySelection |-> filter,
     defaults |-> Undefined,
     validationErrors |-> Undefined]

\* group, device, sensor, channel, value, raw, functions and queryOptions as
\* init() assigns them.
targetDefaults == [group |-> <<>>, device |-> <<>>, sensor |-> <<>>, channel |-> <<>>,
                   value |-> <<>>, functions |-> <<>>]

\* JSON.stringify(target): the key/value pairs in key order, without the keys
\* whose value is undefined.
OptionalKeys == {"filterPropertySelection", "defaults", "validationErrors"}

stringify(target) ==
    SelectSeq([i \in 1..Len(TargetKeys) |-> [key |-> TargetKeys[i], value |-> target[TargetKeys[i]]]],
              LAMBDA pair : ~(pair.key \in OptionalKeys /\ pair.value = Undefined))

isEqual(oldTarget, newTarget) == stringify(oldTarget) = stringify(newTarget)

\* lodash cloneDeep: a value equal to its argument.
cloneDeep(target) == target

RequiredSelections == <<"group", "device", "sensor", "channel", "value", "property">>

ErrorFor(level) ==
    CASE level = "group"    -> "Group selection is required"
      [] level = "device"   -> "Device selection is required"
      [] level = "sensor"   -> "Sensor selection is required"
      [] level = "channel"  -> "Channel selection is required"
      [] level = "value"    -> "Value selection is required"
      [] level = "property" -> "Property selection is required"

\* validateTarget(): the errors it returns and the target it leaves.
validateTarget(target) ==
    [errors |-> [i \in 1..Len(SelectSeq(RequiredSelections,
                                   LAMBDA l : target[SelectionOf(l)].name = <<>>)) |->
                    ErrorFor(SelectSeq(RequiredSelections,
                                   LAMBDA l : target[SelectionOf(l)].name = <<>>)[i])],
     target |-> IF target.filterPropertySelection = Undefined
                THEN [target EXCEPT !.validationErrors = Undefined]
                ELSE target]

\* templateSrv.replace(name): a defined variable gives its current value,
\* every other name is left as it is.
VariableValue == NameOf(1)
replace(name, variables) ==
    IF Len(name) = 2 /\ name[1] = "$" /\ \E i \in 1..Len(variables) : variables[i] = name[2]
    THEN VariableValue
    ELSE name

\* Entries of a candidate list.
AllEntry == [name |-> AllName, visible_name |-> <<"All">>, templated |-> FALSE]
TemplatedEntry(variable) == [name |-> Templated(variable), visible_name |-> <<>>, templated |-> TRUE]
FetchedEntry(name) == [name |-> name, visible_name |-> name, templated |-> FALSE]

\* [{ name: '*', visible_name: 'All' }] after addTemplatedVariables.
Seed(variables) == <<AllEntry>> \o [i \in 1..Len(variables) |-> TemplatedEntry(variables[i])]

DefaultEntry(name, visible) == [name |-> <<name>>, visible_name |-> <<visible>>, templated |-> FALSE]

\* scopeDefaults.metric
scopeDefaults ==
    [propertyList |-> <<DefaultEntry("group", "Group"), DefaultEntry("device", "Device"),
                        DefaultEntry("sensor", "Sensor")>>,
     filterPropertyList |-> <<DefaultEntry("active", "Active"), DefaultEntry("message_raw", "Message"),
                              DefaultEntry("priority", "Priority"), DefaultEntry("status", "Status"),
                              DefaultEntry("tags", "Tags")>>]

EmptyMetric == [groupList |-> <<>>, deviceList |-> <<>>, sensorList |-> <<>>, channelList |-> <<>>,
                valueList |-> <<>>, propertyList |-> <<>>, filterPropertyList |-> <<>>]

\* The selector whose name guards update<Level>List ("" for the group list,
\* which has no guard), and the selectors whose resolved names it passes on.
GuardOf(level) ==
    CASE level = "group"   -> ""
      [] level = "device"  -> "group"
      [] level = "sensor"  -> "device"
      [] level = "channel" -> "sensor"
      [] level = "value"   -> "channel"

FiltersOf(level) ==
    CASE level = "group"   -> <<>>
      [] level = "device"  -> <<"group">>
      [] level = "sensor"  -> <<"device">>
      [] level = "channel" -> <<"group", "device", "sensor">>
      [] level = "value"   -> <<"group", "device", "sensor", "channel">>

\* What a call leaves behind, in order: a host notification, or a suggest
\* request that was started.
Notified == [e |-> "refresh"]
Requested(level, args) == [e |-> "request", level |-> level, args |-> args]

\* targetChange(), which always compares and notifies.
targetChangeAlways(c) ==
    [c EXCEPT !.oldTarget = cloneDeep(c.target),
              !.events = IF c.hasRefresh THEN Append(@, Notified) ELSE @]

\* targetChange()
targetChange(c) ==
    IF ~isEqual(c.oldTarget, c.target)
    THEN [c EXCEPT !.oldTarget = cloneDeep(c.target),
                   !.events = IF c.hasRefresh THEN Append(@, Notified) ELSE @]
    ELSE c

\* variableChanged(): items.some(...) calls targetChange() at the first
\* selector whose name contains '$'.
SelectionKeys == <<"groupSelection", "deviceSelection", "sensorSelection", "channelSelection",
                   "valueSelection", "propertySelection", "filterPropertySelection">>

HasVariable(target) ==
    \E i \in 1..Len(SelectionKeys) :
        /\ target[SelectionKeys[i]] # Undefined
        /\ Contains(target[SelectionKeys[i]].name, "$")

variableChanged(c) == IF HasVariable(c.target) THEN targetChange(c) ELSE c

\* A request in flight: the list it is for, the call that started it and
\* the filters it was given. Starting one ends the time in which the
\* controller counts as disposed. Beside the lists, latest keeps for each
\* level what the request started last for it has left: the seed it began
\* with and, once it has resolved, its entries; nothing once the list was
\* emptied.
Request(level, by, args) == [level |-> level, by |-> by, args |-> args]

NoneStarted == [level \in LevelSet |-> [list |-> <<>>, open |-> FALSE]]

Start(c, request) ==
    [c EXCEPT !.pending = Append(@, request),
              !.disposed = FALSE,
              !.latest[request.level] = [list |-> c.metric[ListOf(request.level)], open |-> TRUE],
              !.events = Append(@, Requested(request.level, request.args))]

\* update<Level>List() that passes the selector names on as they are.
updateListUnresolved(c, level, by) ==
    IF GuardOf(level) # "" /\ c.target[SelectionOf(GuardOf(level))].name = <<>> THEN c
    ELSE Start([c EXCEPT !.metric[ListOf(level)] = Seed(c.variables)],
               Request(level, by,
                       [i \in 1..Len(FiltersOf(level)) |->
                           c.target[SelectionOf(FiltersOf(level)[i])].name]))

\* update<Level>List() up to its await: nothing without the guarding
\* selection, else the list is seeded and the suggest query started.
updateList(c, level, by) ==
    IF GuardOf(level) # "" /\ c.target[SelectionOf(GuardOf(level))].name = <<>> THEN c
    ELSE Start([c EXCEPT !.metric[ListOf(level)] = Seed(c.variables)],
               Request(level, by,
                       [i \in 1..Len(FiltersOf(level)) |->
                           replace(c.target[SelectionOf(FiltersOf(level)[i])].name, c.variables)]))

\* The target clearSelection(selectionType) leaves, where clearing the device
\* also clears the group above it.
clearedTargetBackward(target, selectionType) ==
    CASE selectionType = "group"    -> [target EXCEPT !.groupSelection = [name |-> <<>>]]
      [] selectionType = "device"   -> [target EXCEPT !.deviceSelection = [name |-> <<>>],
                                                      !.groupSelection = [name |-> <<>>]]
      [] selectionType = "sensor"   -> [target EXCEPT !.sensorSelection = [name |-> <<>>]]
      [] selectionType = "channel"  -> [target EXCEPT !.channelSelection = [name |-> <<>>],
                                                      !.valueSelection = [name |-> <<>>]]
      [] selectionType = "value"    -> [target EXCEPT !.valueSelection = [name |-> <<>>]]
      [] selectionType = "property" -> [target EXCEPT !.propertySelection = [name |-> <<>>]]
      [] OTHER -> target

\* The target clearSelection(selectionType) leaves; 'channel' has no break
\* and falls through to 'value'.
clearedTarget(target, selectionType) ==
    CASE selectionType = "group"    -> [target EXCEPT !.groupSelection = [name |-> <<>>]]
      [] selectionType = "device"   -> [target EXCEPT !.deviceSelection = [name |-> <<>>]]
      [] selectionType = "sensor"   -> [target EXCEPT !.sensorSelection = [name |-> <<>>]]
      [] selectionType = "channel"  -> [target EXCEPT !.channelSelection = [name |-> <<>>],
                                                      !.valueSelection = [name |-> <<>>]]
      [] selectionType = "value"    -> [target EXCEPT !.valueSelection = [name |-> <<>>]]
      [] selectionType = "property" -> [target EXCEPT !.propertySelection = [name |-> <<>>]]
      [] OTHER -> target

\* The lists clearSelection(selectionType) leaves, where clearing the group
\* keeps the value list.
clearedMetricKeepsValues(metric, selectionType) ==
    CASE selectionType = "group"    -> [metric EXCEPT !.deviceList = <<>>, !.sensorList = <<>>,
                                                      !.channelList = <<>>,
                                                      !.propertyList = <<>>, !.filterPropertyList = <<>>]
      [] selectionType = "device"   -> [metric EXCEPT !.sensorList = <<>>, !.channelList = <<>>,
                                                      !.valueList = <<>>, !.propertyList = <<>>,
                                                      !.filterPropertyList = <<>>]
      [] selectionType = "sensor"   -> [metric EXCEPT !.channelList = <<>>, !.valueList = <<>>,
                                                      !.propertyList = <<>>, !.filterPropertyList = <<>>]
      [] selectionType = "channel"  -> [metric EXCEPT !.valueList = <<>>]
      [] selectionType = "property" -> [metric EXCEPT !.filterPropertyList = <<>>]
      [] OTHER -> metric

\* The lists clearSelection(selectionType) leaves.
clearedMetric(metric, selectionType) ==
    CASE selectionType = "group"    -> [metric EXCEPT !.deviceList = <<>>, !.sensorList = <<>>,
                                                      !.channelList = <<>>, !.valueList = <<>>,
                                                      !.propertyList = <<>>, !.filterPropertyList = <<>>]
      [] selectionType = "device"   -> [metric EXCEPT !.sensorList = <<>>, !.channelList = <<>>,
                                                      !.valueList = <<>>, !.propertyList = <<>>,
                                                      !.filterPropertyList = <<>>]
      [] selectionType = "sensor"   -> [metric EXCEPT !.channelList = <<>>, !.valueList = <<>>,
                                                      !.propertyList = <<>>, !.filterPropertyList = <<>>]
      [] selectionType = "channel"  -> [metric EXCEPT !.valueList = <<>>]
      [] selectionType = "property" -> [metric EXCEPT !.filterPropertyList = <<>>]
      [] OTHER -> metric

\* clearSelection(selectionType)
clearSelection(c, selectionType) ==
    targetChange([c EXCEPT !.target = clearedTarget(c.target, selectionType),
                           !.metric = clearedMetric(c.metric, selectionType)])

\* The suggest query of a request, settled by the responses of the server
\* (valuesResp answers the second request of performValueSuggestQuery).
suggestQuery(request, resp, valuesResp) ==
    CASE request.level = "group"   -> performGroupSuggestQuery(resp)
      [] request.level = "device"  -> performDeviceSuggestQuery(resp)
      [] request.level = "sensor"  -> performSensorSuggestQuery(resp)
      [] request.level = "channel" -> performChannelSuggestQuery(resp)
      [] request.level = "value"   -> performValueSuggestQuery(request.args[4], resp, valuesResp)

\* The entries update<Level>List pushes for the rows it received: one for
\* each row that has the level's name column; for the value list one for
\* each key of the first row other than 'datetime' (a row has the keys objid
\* and its name column).
fetchedEntries(level, rows) ==
    IF level = "value"
    THEN (IF Len(rows) > 0
          THEN <<FetchedEntry(<<"objid">>), FetchedEntry(<<rows[1].col>>)>>
          ELSE <<>>)
    ELSE LET named == SelectSeq(rows, LAMBDA row : KeyOf(row, level).def)
         IN  [i \in 1..Len(named) |-> FetchedEntry(NameOf(named[i].name))]

RemoveAt(s, i) == SubSeq(s, 1, i - 1) \o SubSeq(s, i + 1, Len(s))

\* update<Level>List() after its await: the fetched entries are pushed onto
\* the list the controller holds now; a rejection is logged.
afterSuggest(c, i, outcome) ==
    LET request == c.pending[i]
        startedLast == /\ c.latest[request.level].open
                       /\ \A j \in (i + 1)..Len(c.pending) : c.pending[j].level # request.level
        rest == [c EXCEPT !.pending = RemoveAt(@, i),
                          !.latest[request.level] =
                              IF ~startedLast THEN @
                              ELSE [list |-> IF outcome.st = "rejected" THEN @.list
                                             ELSE @.list \o fetchedEntries(request.level,
                                                                           outcome.val.rows),
                                    open |-> FALSE]]
    IN  IF outcome.st = "rejected" THEN rest
        ELSE [rest EXCEPT !.metric[ListOf(request.level)] =
                              @ \o fetchedEntries(request.level, outcome.val.rows)]

\* refreshSelectionLists(): the call in progress.
IdleRefresh == [pc |-> "idle", issued |-> <<>>]

RefreshDone(c) == [c EXCEPT !.refresh.pc = "idle"]

RefreshStep(c, level) ==
    LET started == updateList(c, level, "refresh")
    IN  [started EXCEPT !.refresh.pc = level, !.refresh.issued = Append(@, level)]

\* refreshSelectionLists() from the end of its await of update<Level>List on.
refreshAfter(c, level) ==
    CASE level = "group" ->
            IF c.target.groupSelection.name # <<>> THEN RefreshStep(c, "device") ELSE RefreshDone(c)
      [] level = "device" ->
            IF c.target.deviceSelection.name # <<>> THEN RefreshStep(c, "sensor") ELSE RefreshDone(c)
      [] level = "sensor" ->
            LET listed == [c EXCEPT !.metric.propertyList = scopeDefaults.propertyList]
            IN  IF c.target.sensorSelection.name # <<>> THEN RefreshStep(listed, "channel")
                ELSE RefreshDone(listed)
      [] level = "channel" ->
            IF c.target.channelSelection.name # <<>> THEN RefreshStep(c, "value") ELSE RefreshDone(c)
      [] level = "value" ->
            IF c.target.valueSelection.name # <<>> THEN RefreshDone(targetChange(c)) ELSE RefreshDone(c)

\* refreshSelectionLists() that starts the group and the device request
\* together.
refreshStartParallel(c) ==
    LET first == RefreshStep([c EXCEPT !.refresh = IdleRefresh], "group")
    IN  IF c.target.groupSelection.name # <<>> THEN RefreshStep(first, "device") ELSE first

\* refreshSelectionLists() up to its first await.
refreshStart(c) == RefreshStep([c EXCEPT !.refresh = IdleRefresh], "group")

\* init(): the snapshot is taken before the defaults are assigned; the five
\* update<Level>List calls are started without awaiting any. Object.assign
\* leaves the lists it does not name undefined, which every accessor reads
\* as empty.
init(host, variables, hasRefresh) ==
    LET withDefaults == [host EXCEPT !.defaults = targetDefaults, !.options = [mode |-> "metrics"]]
        c0 == [st |-> "open", target |-> withDefaults, oldTarget |-> cloneDeep(host),
               metric |-> EmptyMetric, variables |-> variables, hasRefresh |-> hasRefresh,
               pending |-> <<>>, refresh |-> IdleRefresh, calls |-> 0, disposed |-> FALSE,
               latest |-> NoneStarted,
               last |-> [op |-> "constructor", arg |-> ""], events |-> <<>>]
        c1 == updateList(c0, "group", "init")
        c2 == updateList(c1, "device", "init")
        c3 == updateList(c2, "sensor", "init")
        c4 == updateList(c3, "channel", "init")
        c5 == updateList(c4, "value", "init")
        c6 == [c5 EXCEPT !.metric.propertyList = scopeDefaults.propertyList,
                         !.metric.filterPropertyList = scopeDefaults.filterPropertyList]
        validated == validateTarget(c6.target)
    IN  [c6 EXCEPT !.target = [validated.target EXCEPT
                                  !.validationErrors = [errors |-> validated.errors]]]

\* rawRequest and transformations as resetTarget() writes them, in the place
\* of the keys init() assigns.
resetDefaults == [rawRequest |-> <<>>, transformations |-> <<>>]

\* The object resetTarget() assigns to this.target.
ResetObject ==
    [queryType |-> "metrics",
     options |-> [mode |-> "metrics"],
     groupSelection |-> [name |-> <<>>],
     deviceSelection |-> [name |-> <<>>],
     sensorSelection |-> [name |-> <<>>],
     channelSelection |-> [name |-> <<>>],
     valueSelection |-> [name |-> <<>>],
     propertySelection |-> [name |-> <<>>],
     filterPropertySelection |-> [name |-> <<>>],
     defaults |-> resetDefaults,
     validationErrors |-> Undefined]

\* resetTarget() that carries the property selection over.
resetTargetKeepsProperty(c) ==
    targetChange([c EXCEPT !.target = [ResetObject EXCEPT
                                          !.propertySelection = c.target.propertySelection]])

\* resetTarget()
resetTarget(c) == targetChange([c EXCEPT !.target = ResetObject])

\* getMetricNames(metricType): the names of the list, each once, in the
\* order of their first entries.
getMetricNames(c, metricType) ==
    LET list == c.metric[metricType]
        firsts == SelectSeq([i \in 1..Len(list) |-> i],
                            LAMBDA i : \A j \in 1..(i - 1) : list[j].name # list[i].name)
    IN  [k \in 1..Len(firsts) |-> list[firsts[k]].name]

\* getMetricList(metricType): the list of a level is read from this.metric,
\* the two property lists from scopeDefaults.metric.
getMetricList(c, metricType) ==
    CASE metricType \in LevelSet              -> c.metric[ListOf(metricType)]
      [] metricType = "propertyList"          -> scopeDefaults.propertyList
      [] metricType = "filterPropertyList"    -> scopeDefaults.filterPropertyList
      [] OTHER                                -> <<>>

\* The list that getGroupNames, ..., getValueNames, getPropertyName and
\* getFilterPropertyName read, by the metricType of getMetricList.
AccessorList(metricType) == IF metricType \in LevelSet THEN ListOf(metricType) ELSE metricType

\* The value of each entry of queryTypeOptions; a mode stands for the entry
\* with that value.
EditorModes == {"metrics", "text", "raw"}

\* switchEditorMode(mode): the options are made if there are none, else
\* their mode is assigned; then targetChange().
switchEditorMode(c, mode) ==
    targetChange(IF c.target.options = Undefined
                 THEN [c EXCEPT !.target.options = [mode |-> mode]]
                 ELSE [c EXCEPT !.target.options.mode = mode])

\* dispose()
dispose(c) == [c EXCEPT !.metric = EmptyMetric]

\* getValidationStatus(): what it returns, and the controller it leaves.
getValidationStatus(c) ==
    LET validated == validateTarget(c.target)
    IN  [ret |-> [isValid |-> Len(validated.errors) = 0, errors |-> validated.errors],
         c |-> [c EXCEPT !.target = validated.target]]

---------------------------------------------------------------------------
(* The controller driven by its host: the calls of the query editor, and   *)
(* the suggest responses arriving in any order.                            *)

MaxCalls == 2       \* calls of the host that set or select a selector
MaxStarts == 1      \* calls of the host that refresh lists

\* The call that is made: what it is, and whether the target differs from
\* the snapshot when it is made (clearSelection: and the levels whose lists
\* hold entries; a settling request: who started it and whether it failed).
Called(c, op, arg) ==
    [c EXCEPT !.last = [op |-> op, arg |-> arg, changed |-> ~isEqual(c.oldTarget, c.target)],
              !.events = <<>>]

Counted(c) == [c EXCEPT !.calls = @ + 1]

\* A list that was emptied is left by no request.
Emptied(c) ==
    [c EXCEPT !.latest = [level \in LevelSet |->
                             IF c.metric[ListOf(level)] = <<>> THEN [list |-> <<>>, open |-> FALSE]
                             ELSE @[level]]]

NextLevel(level) ==
    CASE level = "group"   -> "device"
      [] level = "device"  -> "sensor"
      [] level = "sensor"  -> "channel"
      [] level = "channel" -> "value"

\* select<Level>()
select(c, level) == updateList(targetChange(c), NextLevel(level), "select")

OnlyCtl == UNCHANGED <<now, httpLog, api, defaultTimeout, cache, cacheRet, stored, ds>>

\* new QueryEditorController(target, datasource, templateSrv, panelCtrl)
Construct(host, variables, hasRefresh) ==
    /\ ctl = NoCtl
    /\ ctl' = init(host, variables, hasRefresh)
    /\ OnlyCtl

\* updateTarget({<level>Selection: {name}})
UpdateTarget(level, name) ==
    /\ ctl.st = "open"
    /\ ctl.calls < MaxCalls
    /\ ctl' = Counted([Called(ctl, "updateTarget", level) EXCEPT
                          !.target[SelectionOf(level)] = [name |-> name]])
    /\ OnlyCtl

TargetChange ==
    /\ ctl.st = "open"
    /\ ctl' = targetChange(Called(ctl, "targetChange", ""))
    /\ OnlyCtl

VariableChanged ==
    /\ ctl.st = "open"
    /\ ctl' = variableChanged(Called(ctl, "variableChanged", ""))
    /\ OnlyCtl

Select(level) ==
    /\ ctl.st = "open"
    /\ ctl.calls < MaxCalls
    /\ ctl' = select(Counted(Called(ctl, "select", level)), level)
    /\ OnlyCtl

UpdateList(level) ==
    /\ ctl.st = "open"
    /\ ctl.calls < MaxStarts
    /\ ctl' = updateList(Counted(Called(ctl, "updateList", level)), level, "host")
    /\ OnlyCtl

ClearSelection(selectionType) ==
    /\ ctl.st = "open"
    /\ ctl' = Emptied(clearSelection([Called(ctl, "clearSelection", selectionType) EXCEPT
                                 !.last = [op |-> "clearSelection", arg |-> selectionType,
                                           changed |-> @.changed,
                                           listed |-> {l \in LevelSet : ctl.metric[ListOf(l)] # <<>>}]],
                             selectionType))
    /\ OnlyCtl

\* refreshSelectionLists(), one call at a time.
RefreshSelectionLists ==
    /\ ctl.st = "open"
    /\ ctl.calls < MaxStarts
    /\ ctl.refresh.pc = "idle"
    /\ ctl' = refreshStart(Counted(Called(ctl, "refreshSelectionLists", "")))
    /\ OnlyCtl

SwitchEditorMode(mode) ==
    /\ ctl.st = "open"
    /\ ctl' = switchEditorMode(Called(ctl, "switchEditorMode", mode), mode)
    /\ OnlyCtl

ResetTarget ==
    /\ ctl.st = "open"
    /\ ctl' = resetTarget(Called(ctl, "resetTarget", ""))
    /\ OnlyCtl

\* dispose(); the controller counts as disposed until a list update starts.
Dispose ==
    /\ ctl.st = "open"
    /\ ctl' = Emptied([dispose(Called(ctl, "dispose", "")) EXCEPT !.disposed = TRUE])
    /\ OnlyCtl

GetValidationStatus ==
    /\ ctl.st = "open"
    /\ LET called == Called(ctl, "getValidationStatus", "")
           status == getValidationStatus(called)
       IN  ctl' = [status.c EXCEPT !.last = [op |-> "getValidationStatus", arg |-> "",
                                             changed |-> called.last.changed,
                                             ret |-> status.ret]]
    /\ OnlyCtl

\* What the server answers a suggest request for a level with.
CtlRows(level) == <<[objid |-> 1, name |-> 1, col |-> level]>>
CtlField(level) ==
    CASE level = "group"  -> "groups"
      [] level = "device" -> "devices"
      [] OTHER            -> "sensors"
CtlResponses(level) ==
    {NetworkFailure,
     OkResponse(ObjBody("", "24.1", [f \in {CtlField(level)} |->
                                        CtlRows(IF level = "value" THEN "sensor" ELSE level)]))}
ValuesResponses(level) ==
    IF level = "value"
    THEN {NetworkFailure, OkResponse(ObjBody("", "24.1", [f \in {"values"} |-> CtlRows("value")]))}
    ELSE {NoResponse}

\* The suggest query of request i settles; update<Level>List goes on after
\* its await, and so does the refreshSelectionLists() that awaits it.
Settle(i, resp, valuesResp) ==
    /\ ctl.st = "open"
    /\ i \in 1..Len(ctl.pending)
    /\ resp \in CtlResponses(ctl.pending[i].level)
    /\ valuesResp \in ValuesResponses(ctl.pending[i].level)
    /\ LET request == ctl.pending[i]
           outcome == suggestQuery(request, resp, valuesResp)
           called == [Called(ctl, "settle", request.level) EXCEPT
                         !.last = [op |-> "settle", arg |-> request.level, changed |-> @.changed,
                                   by |-> request.by, failed |-> outcome.st = "rejected"]]
           updated == afterSuggest(called, i, outcome)
       IN  ctl' = IF request.by = "refresh" THEN refreshAfter(updated, request.level) ELSE updated
    /\ OnlyCtl

\* Inputs: the hosts that open the editor (a new query; a saved query with
\* a group, given by a template variable, and a device; a saved query whose
\* upper levels were cleared, in a panel without a refresh callback), and
\* the name the host gives each selector.
NoName == <<>>
Host(target, variables, hasRefresh) ==
    [target |-> target, variables |-> variables, hasRefresh |-> hasRefresh]
Hosts ==
    {Host(HostTarget(NoName, NoName, NoName, NoName, NoName, NoName, Undefined), <<>>, TRUE),
     Host(HostTarget(Templated("host"), NameOf(1), NoName, NoName, NoName, <<"status">>,
                     [name |-> <<"active">>]), <<"host">>, TRUE),
     Host(HostTarget(NoName, NoName, NoName, NameOf(1), NameOf(1), NoName, Undefined), <<>>, FALSE)}
SelectionName(level) == IF level = "group" THEN Templated("host") ELSE NameOf(1)
SelectionTypes == LevelSet \cup {"property", "unknown"}
AllResponses == UNION {CtlResponses(level) \cup ValuesResponses(level) : level \in LevelSet}
MaxInFlight == Len(Levels) + MaxCalls + MaxStarts

\* The host clears selections, resets the target or disposes of the
\* controller, while the requests of init() are in flight.
NextClear ==
    \/ \E host \in Hosts : Construct(host.target, host.variables, host.hasRefresh)
    \/ \E selectionType \in SelectionTypes : ClearSelection(selectionType)
    \/ Dispose
    \/ ResetTarget
    \/ \E i \in 1..MaxInFlight, resp \in AllResponses, valuesResp \in AllResponses :
           Settle(i, resp, valuesResp)

SpecClear == Init /\ [][NextClear]_vars

\* The host sets selectors, selects levels, resets and validates the target
\* and signals changes, before any response arrives.
NextNotify ==
    \/ \E host \in Hosts : Construct(host.target, host.variables, host.hasRefresh)
    \/ \E level \in LevelSet : UpdateTarget(level, SelectionName(level))
    \/ TargetChange
    \/ VariableChanged
    \/ \E level \in LevelSet \ {"value"} : Select(level)
    \/ ResetTarget
    \/ GetValidationStatus
    \/ \E mode \in EditorModes : SwitchEditorMode(mode)

SpecNotify == Init /\ [][NextNotify]_vars

\* The host refreshes the lists, all at once or one by one, and leaves the
\* target alone.
NextRefresh ==
    \/ \E host \in Hosts : Construct(host.target, host.variables, host.hasRefresh)
    \/ \E level \in LevelSet : UpdateList(level)
    \/ RefreshSelectionLists
    \/ \E i \in 1..MaxInFlight, resp \in AllResponses, valuesResp \in AllResponses :
           Settle(i, resp, valuesResp)

SpecRefresh == Init /\ [][NextRefresh]_vars

---------------------------------------------------------------------------
(* Claims about clearSelection and the candidate lists (SpecClear)         *)

LastCall(op) == ctl.st = "open" /\ ctl.last.op = op

ClearedLists == {"deviceList", "sensorList", "channelList", "valueList", "propertyList",
                 "filterPropertyList"}

\* C12: after clearSelection('group'), groupSelection.name is '' and the
\* device, sensor, channel, value, property and filter-property lists are
\* all empty.
C12_ClearGroupEmptiesLists ==
    (LastCall("clearSelection") /\ ctl.last.arg = "group") =>
        /\ ctl.target.groupSelection.name = <<>>
        /\ \A list \in ClearedLists : ctl.metric[list] = <<>>

\* clearSelection('group') was called while the device and the value list
\* held entries.
C12_Witness ==
    /\ LastCall("clearSelection") /\ ctl.last.arg = "group"
    /\ "value" \in ctl.last.listed
    /\ ctl.metric.groupList # <<>>

LevelIndex(level) == CHOOSE i \in 1..Len(Levels) : Levels[i] = level
Below(level) == {l \in LevelSet : LevelIndex(l) > LevelIndex(level)}
Above(level) == {l \in LevelSet : LevelIndex(l) < LevelIndex(level)}

\* C13: after clearSelection(L), L one of group, device, sensor, channel, the
\* selector name of every level below L is empty.
C13_ClearCascadesToSelectors ==
    (LastCall("clearSelection") /\ ctl.last.arg \in LevelSet \ {"value"}) =>
        \A l \in Below(ctl.last.arg) : ctl.target[SelectionOf(l)].name = <<>>

C15_ListsStartWithSeed ==
    ctl.st = "open" =>
        \A l \in LevelSet :
            LET list == ctl.metric[ListOf(l)]
                seed == Seed(ctl.variables)
            IN  \/ list = <<>>
                \/ /\ Len(list) >= Len(seed)
                   /\ SubSeq(list, 1, Len(seed)) = seed
                   /\ \A i \in (Len(seed) + 1)..Len(list) :
                          ~list[i].templated /\ list[i].name # AllName

---------------------------------------------------------------------------
(* Claims about change notification (SpecNotify)                           *)

Notifications == SelectSeq(ctl.events, LAMBDA event : event.e = "refresh")
Requests == SelectSeq(ctl.events, LAMBDA event : event.e = "request")

\* C16: targetChange() invokes the refresh callback of the host exactly when
\* the target differs from the snapshot, and leaves the snapshot equal to the
\* target; a second targetChange() without a mutation in between does not
\* notify again.
C16_TargetChangeDeduplicates ==
    LastCall("targetChange") =>
        /\ isEqual(ctl.oldTarget, ctl.target)
        /\ ctl.events = IF ctl.last.changed /\ ctl.hasRefresh THEN <<Notified>> ELSE <<>>

\* targetChange() was called on a target that a call before had already
\* notified, in a panel with a refresh callback.
C16_Witness ==
    /\ LastCall("targetChange")
    /\ ~ctl.last.changed
    /\ ctl.hasRefresh
    /\ ctl.calls > 0

\* C17: variableChanged() invokes the refresh callback exactly once when a
\* selector name contains '$', whether or not the target was modified since
\* the last notification, and not at all when none does.
C17_VariableChangeAlwaysNotifies ==
    (LastCall("variableChanged") /\ ctl.hasRefresh) =>
        ctl.events = IF HasVariable(ctl.target) THEN <<Notified>> ELSE <<>>

\* C18: select<Level>() on a changed target notifies the host first, then
\* starts exactly one suggest request, for the next level and with the
\* resolved name of the selection; with an empty selection it starts none.
C18_SelectNotifiesThenRequests ==
    LastCall("select") =>
        LET name == ctl.target[SelectionOf(ctl.last.arg)].name
        IN  /\ Notifications = IF ctl.last.changed /\ ctl.hasRefresh THEN <<Notified>> ELSE <<>>
            /\ ctl.events = Notifications \o Requests
            /\ name = <<>> => Requests = <<>>
            /\ name # <<>> =>
                   /\ Len(Requests) = 1
                   /\ Requests[1].level = NextLevel(ctl.last.arg)
                   /\ Requests[1].args[Len(Requests[1].args)] = replace(name, ctl.variables)

\* selectGroup() was called after the host set the group to '$host', a
\* defined variable: the host was notified and the device request started.
C18_Witness ==
    /\ LastCall("select") /\ ctl.last.arg = "group"
    /\ ctl.last.changed /\ ctl.hasRefresh
    /\ ctl.calls > 1
    /\ ctl.target.groupSelection.name = Templated("host")
    /\ ctl.variables = <<"host">>
    /\ Len(ctl.events) = 2

---------------------------------------------------------------------------
(* Claims about refreshing the lists (SpecRefresh)                         *)

Awaited == SelectSeq(ctl.pending, LAMBDA request : request.by = "refresh")

\* C19: refreshSelectionLists() starts with the group list and requests the
\* lists in the order group, device, sensor, channel, value, one request at
\* a time, each after the one before has completed, and none for a level
\* that has an empty selector above it.
C19_RefreshWalksInOrder ==
    ctl.st = "open" =>
        LET issued == ctl.refresh.issued
        IN  /\ Len(issued) <= Len(Levels) /\ issued = SubSeq(Levels, 1, Len(issued))
            /\ LastCall("refreshSelectionLists") => issued = <<"group">>
            /\ Len(Awaited) <= 1
            /\ Len(Awaited) = 1 <=> ctl.refresh.pc # "idle"
            /\ Len(Awaited) = 1 => Awaited[1].level = issued[Len(issued)]
            /\ \A k \in 1..Len(issued) : \A l \in Above(issued[k]) :
                   ctl.target[SelectionOf(l)].name # <<>>

\* refreshSelectionLists() has walked from the group list to the sensor list
\* of a query with a group and a device, and stopped at the empty sensor
\* selection.
C19_Witness ==
    /\ ctl.st = "open"
    /\ ctl.refresh = [pc |-> "idle", issued |-> <<"group", "device", "sensor">>]
    /\ ctl.target.sensorSelection.name = <<>>
    /\ ctl.pending = <<>>

SeedOnly(list) == \A i \in 1..Len(list) : list[i].templated \/ list[i].name = AllName

\* The lists a refreshSelectionLists() that awaited the request for a level
\* goes on to set.
RefreshedAfter(level) ==
    IF level = "value" THEN {} ELSE {ListOf(NextLevel(level)), "propertyList"}

\* C20: when a suggest query is rejected, update<Level>List completes and
\* the list it was for holds no server-fetched entry; the target, the
\* snapshot and the other lists are as they were (but for the lists a
\* refreshSelectionLists() that awaited it goes on to refresh).
C20_RejectedQueryLeavesSeedOnly ==
    [][(ctl'.st = "open" /\ ctl'.last.op = "settle" /\ ctl'.last.failed /\ ctl' # ctl) =>
          /\ Len(ctl'.pending) + 1 = Len(ctl.pending) + Len(ctl'.events)
          /\ SeedOnly(ctl'.metric[ListOf(ctl'.last.arg)])
          /\ ctl'.target = ctl.target
          /\ ctl'.oldTarget = ctl.oldTarget
          /\ \A list \in DOMAIN ctl.metric \ {ListOf(ctl'.last.arg)} :
                 \/ ctl'.metric[list] = ctl.metric[list]
                 \/ ctl'.last.by = "refresh" /\ list \in RefreshedAfter(ctl'.last.arg)]_vars

---------------------------------------------------------------------------
(* Claims about resetTarget and dispose                                    *)

\* C21: after resetTarget(), from any prior controller state, the seven
\* selectors have empty names and queryType is 'metrics', so that
\* getValidationStatus() returns isValid false and exactly one error for
\* each of group, device, sensor, channel, value and property.
C21_ResetTargetIsInvalid ==
    LastCall("resetTarget") =>
        /\ \A i \in 1..Len(SelectionKeys) : ctl.target[SelectionKeys[i]] = [name |-> <<>>]
        /\ ctl.target.queryType = "metrics"
        /\ getValidationStatus(ctl).ret =
               [isValid |-> FALSE,
                errors |-> [i \in 1..Len(RequiredSelections) |-> ErrorFor(RequiredSelections[i])]]

\* resetTarget() was called on a target with a group, a device, a property
\* and a filter property selected, and the host was notified.
C21_Witness ==
    /\ LastCall("resetTarget")
    /\ ctl.variables = <<"host">>
    /\ ctl.last.changed
    /\ ctl.events = <<Notified>>

\* C22: dispose() empties every candidate list and leaves the target, the
\* snapshot and the host callback as they were, without notifying the host;
\* the lists then stay empty until a new update or refresh is started.
C22_DisposeReleasesListsOnly ==
    [][/\ (ctl'.st = "open" /\ ctl'.last.op = "dispose") =>
              /\ ctl'.metric = EmptyMetric
              /\ ctl'.target = ctl.target
              /\ ctl'.oldTarget = ctl.oldTarget
              /\ ctl'.hasRefresh = ctl.hasRefresh
              /\ ctl'.events = <<>>
       /\ (ctl'.st = "open" /\ ctl'.disposed) => ctl'.metric = EmptyMetric]_vars

---------------------------------------------------------------------------
(* Claims about the client's queries (SpecApi)                             *)

\* The bucket for a span of so many hours, as the table of C23 has it.
BucketOf(hours) ==
    IF hours > 12 /\ hours < 36 THEN "300"
    ELSE IF hours > 36 /\ hours < 745 THEN "3600"
    ELSE IF hours > 745 THEN "86400"
    ELSE "0"

AvgSent == SelectSeq(httpLog[1].url.params, LAMBDA param : param.k = "avg")

HistoryRequested == api.op = "performQuerySuggestQuery" /\ httpLog # <<>>

\* C23: the averaging bucket performQuerySuggestQuery sends depends on the
\* span h = (to - from) in hours only: '300' when 12 < h < 36, '3600' when
\* 36 < h < 745, '86400' when h > 745 and '0' in every other case.
C23_BucketFollowsSpan ==
    HistoryRequested =>
        \E hours \in SpanHours :
            /\ api.args.edate - api.args.sdate = hours * HourMs
            /\ AvgSent = <<Param("avg", BucketOf(hours))>>

\* A request over 20 hours that do not start at 0 was sent with avg=300.
C23_Witness ==
    /\ HistoryRequested
    /\ api.args.sdate # 0
    /\ api.args.edate - api.args.sdate = 20 * HourMs
    /\ AvgSent = <<Param("avg", "300")>>

---------------------------------------------------------------------------
(* Methods of the client applied to one input each (SpecMethods)           *)

\* processResponse(data)
ProcessResponse(data) ==
    /\ api = IdleApi
    /\ api' = [pc |-> "settled", op |-> "processResponse", args |-> NoArgs,
               resp |-> OkResponse(data), out |-> processResponse(data)]
    /\ UNCHANGED <<now, httpLog, defaultTimeout, cache, cacheRet, stored, ds, ctl>>

OneRow == <<[objid |-> 1, name |-> 1]>>

\* performValueSuggestQuery is called: with an empty channel filter it
\* resolves at once, else the channel suggest request goes out.
ValueSuggestCall(groupFilter, deviceFilter, sensorFilter, channelFilter) ==
    /\ api = IdleApi
    /\ LET args == [groupFilter |-> groupFilter, deviceFilter |-> deviceFilter,
                    sensorFilter |-> sensorFilter, channelFilter |-> channelFilter]
       IN  IF channelFilter = <<>>
           THEN /\ api' = [pc |-> "settled", op |-> "performValueSuggestQuery", args |-> args,
                           sensors |-> NoResponse, resp |-> NoResponse,
                           out |-> performValueSuggestQuery(channelFilter, NoResponse, NoResponse)]
                /\ httpLog' = httpLog
           ELSE /\ api' = [pc |-> "channels", op |-> "performValueSuggestQuery", args |-> args,
                           sensors |-> NoResponse, resp |-> NoResponse, out |-> Unsettled]
                /\ httpLog' = Append(httpLog,
                                     [url |-> suggestUrl("sensors", groupFilter, deviceFilter, sensorFilter),
                                      at |-> now, result |-> "inflight"])
    /\ UNCHANGED <<now, defaultTimeout, cache, cacheRet, stored, ds, ctl>>

\* The channel suggest query settles: without a sensor id the method
\* resolves, with one the values request goes out.
ValueSuggestChannels(resp) ==
    /\ api.pc = "channels"
    /\ LET answered == [httpLog EXCEPT ![Len(httpLog)].result = resp.k]
       IN  IF sensorIdOf(resp) = 0
           THEN /\ api' = [api EXCEPT !.pc = "settled", !.sensors = resp,
                                      !.out = performValueSuggestQuery(api.args.channelFilter,
                                                                       resp, NoResponse)]
                /\ httpLog' = answered
           ELSE /\ api' = [api EXCEPT !.pc = "values", !.sensors = resp]
                /\ httpLog' = Append(answered, [url |-> valuesUrl(sensorIdOf(resp)), at |-> now,
                                                result |-> "inflight"])
    /\ UNCHANGED <<now, defaultTimeout, cache, cacheRet, stored, ds, ctl>>

\* The values request settles.
ValueSuggestValues(resp) ==
    /\ api.pc = "values"
    /\ api' = [api EXCEPT !.pc = "settled", !.resp = resp,
                          !.out = performValueSuggestQuery(api.args.channelFilter, api.sensors, resp)]
    /\ httpLog' = [httpLog EXCEPT ![Len(httpLog)].result = resp.k]
    /\ UNCHANGED <<now, defaultTimeout, cache, cacheRet, stored, ds, ctl>>

\* What the server answers the two requests with: sensors in any order,
\* with and without object ids; values, with and without the marker.
SensorRows == [objid : {0, 1, 2}, name : RowNames]
SensorsResponses ==
    {NetworkFailure, HttpFailure("500", "Internal Server Error", StrBody("error")),
     OkResponse(ObjBody("", "24.1", [f \in {"groups"} |-> RowsOf("groups", OneRow)]))}
    \cup {OkResponse(ObjBody("", "24.1", [f \in {"sensors"} |-> RowsOf("sensors", c)])) :
              c \in SeqsUpTo(SensorRows, MaxLen)}
ValuesAnswers ==
    {NetworkFailure, HttpFailure("403", "Forbidden", StrBody("Forbidden")),
     OkResponse(ObjBody("", "24.1", [f \in {"values"} |-> RowsOf("values", OneRow)])),
     OkResponse(ObjBody("", "24.1", [f \in {"values"} |-> <<>>])),
     OkResponse(ObjBody("", "", [f \in {"values"} |-> RowsOf("values", OneRow)]))}
ChannelFilters == {<<>>, <<"1">>}

\* executeRequest(endpoint, params), its request answered by resp.
ExecuteRequest(endpoint, resp) ==
    /\ api = IdleApi
    /\ api' = [pc |-> "settled", op |-> "executeRequest", args |-> [endpoint |-> endpoint],
               resp |-> resp, out |-> executeRequest(endpoint, resp)]
    /\ UNCHANGED <<now, httpLog, defaultTimeout, cache, cacheRet, stored, ds, ctl>>

Endpoints == {"status.json", "table.json"}

\* getMessages(fromTime, toTime, sensorId), its request answered by resp.
GetMessages(fromTime, toTime, resp) ==
    /\ api = IdleApi
    /\ api' = [pc |-> "settled", op |-> "getMessages",
               args |-> [fromTime |-> fromTime, toTime |-> toTime],
               resp |-> resp, out |-> getMessages(fromTime, toTime, resp)]
    /\ UNCHANGED <<now, httpLog, defaultTimeout, cache, cacheRet, stored, ds, ctl>>

\* Messages around the bounds of the range from 10 s to 20 s: 9.5 s rounds
\* to the lower bound, 10.5 s to 11 s, 19.5 s to the upper bound.
HalfSeconds == {19, 21, 38, 39}
Message(datetime_raw, parent, type, message) ==
    [datetime_raw |-> datetime_raw, parent |-> parent, type |-> type, message |-> message,
     status |-> "Up", tags |-> <<[s |-> "a", blanks |-> FALSE], [s |-> "b", blanks |-> TRUE]>>]
Messages ==
    {Message(raw, present[1], present[2], present[3]) :
        raw \in {NoDate} \cup {[days |-> OleEpochDays, half |-> h] : h \in HalfSeconds},
        present \in {<<"p", "t", "m">>, <<"", "t", "m">>, <<"p", "", "m">>, <<"p", "t", "">>}}
MessagesResponses ==
    {NetworkFailure, HttpFailure("500", "Internal Server Error", StrBody("error"))}
    \cup {OkResponse(ObjBody("", marker, [f \in {"messages"} |-> list])) :
              marker \in Versions, list \in SeqsUpTo(Messages, MaxLen)}
TimeRanges == {<<10, 20>>, <<20, 10>>}

\* Payloads: the strings, an array, and an object with any of the seven
\* collection fields, with and without Version and the 'prtg-version' marker.
Payloads ==
    {StrBody(Sentinel), StrBody("OK"), ListBody(<<>>)}
    \cup {ObjBody(v, m, [f \in fs |-> RowsOf(f, OneRow)]) :
              v \in Versions, m \in Versions,
              fs \in SUBSET {responseTypes[i] : i \in 1..Len(responseTypes)}}

\* maskSensitiveData(obj)
MaskSensitiveData(obj) ==
    /\ api = IdleApi
    /\ api' = [pc |-> "settled", op |-> "maskSensitiveData", args |-> [obj |-> obj],
               resp |-> NoResponse, out |-> maskSensitiveData(obj)]
    /\ UNCHANGED <<now, httpLog, defaultTimeout, cache, cacheRet, stored, ds, ctl>>

\* What is masked: strings with and without a passhash parameter, numbers
\* and null under keys of every spelling, in an object of its own, in the
\* params of a request config and in an array.
MaskKeys == {"passhash", "passwordHash", "password", "Password", "username"}
LoginUrl ==
    StringValue(<<Plain("https://prtg/api/table.json"), QueryParam("?", "username", "admin"),
                  QueryParam("&", "passhash", "12345")>>)
MaskLeaves ==
    {StringValue(<<Plain("12345")>>), LoginUrl,
     StringValue(<<QueryParam("", "passhash", "12345"), QueryParam("&", "Passhash", "12345")>>),
     NumberValue(12345), Null}
InnerValues ==
    {ObjectValue(<<Entry(key, value)>>) : key \in MaskKeys, value \in MaskLeaves}
    \cup {ArrayValue(<<value>>) : value \in MaskLeaves}
MaskInputs ==
    MaskLeaves \cup InnerValues
    \cup {ObjectValue(<<Entry("url", LoginUrl), Entry("params", inner)>>) : inner \in InnerValues}
    \cup {ObjectValue(<<Entry(key, inner)>>) : key \in MaskKeys, inner \in InnerValues}

NextMethods ==
    \/ \E obj \in MaskInputs : MaskSensitiveData(obj)
    \/ \E data \in Payloads : ProcessResponse(data)
    \/ \E groupFilter \in Filters, deviceFilter \in Filters, sensorFilter \in Filters,
          channelFilter \in ChannelFilters :
           ValueSuggestCall(groupFilter, deviceFilter, sensorFilter, channelFilter)
    \/ \E resp \in SensorsResponses : ValueSuggestChannels(resp)
    \/ \E resp \in ValuesAnswers : ValueSuggestValues(resp)
    \/ \E range \in TimeRanges, resp \in MessagesResponses : GetMessages(range[1], range[2], resp)
    \/ \E endpoint \in Endpoints, resp \in Responses : ExecuteRequest(endpoint, resp)

SpecMethods == Init /\ [][NextMethods]_vars

Processed == api.op = "processResponse"

\* The first of the seven collection fields that data has.
FirstField(data) ==
    responseTypes[CHOOSE i \in 1..Len(responseTypes) :
                     /\ responseTypes[i] \in DOMAIN data.cols
                     /\ \A j \in 1..(i - 1) : responseTypes[j] \notin DOMAIN data.cols]

\* C24: processResponse returns an object with Version as it is; else for an
\* object with the prtg-version marker its groups field if present and
\* otherwise the object; else the first present field in the order groups,
\* devices, sensors, channels, values, sensordata, messages; else it raises
\* an error for the string "Not enough monitoring data"; else it returns the
\* payload unchanged.
C24_ProcessResponsePriority ==
    Processed =>
        LET data == api.resp.data
            isObject == data.t = "obj"
        IN  IF isObject /\ data.Version # "" THEN api.out = Ret(data)
            ELSE IF isObject /\ data.marker # ""
            THEN api.out = Ret(IF "groups" \in DOMAIN data.cols
                               THEN ListBody(data.cols["groups"]) ELSE data)
            ELSE IF isObject /\ DOMAIN data.cols # {}
            THEN api.out = Ret(ListBody(data.cols[FirstField(data)]))
            ELSE IF data = StrBody("Not enough monitoring data")
            THEN ~api.out.ok /\ api.out.err.name = "Error"
            ELSE api.out = Ret(data)

\* An object that has only sensors gave the value of its sensors field.
C24_Witness ==
    /\ Processed
    /\ api.resp.data = ObjBody("", "", [f \in {"sensors"} |-> RowsOf("sensors", OneRow)])
    /\ api.out = Ret(ListBody(RowsOf("sensors", OneRow)))

ValueSuggested == api.op = "performValueSuggestQuery"

\* The sensor that comes first when the rows are sorted by name, rows of
\* the same name staying in the server's order.
FirstSorted(rows) ==
    rows[CHOOSE i \in 1..Len(rows) :
            \A j \in 1..Len(rows) :
                rows[i].name < rows[j].name \/ (rows[i].name = rows[j].name /\ i <= j)]

\* The sensors the channel suggest phase resolved with (none when it failed).
SensorsGiven ==
    IF api.sensors.k = "ok" /\ "sensors" \in DOMAIN api.sensors.data.cols
    THEN api.sensors.data.cols["sensors"]
    ELSE <<>>

\* C25: performValueSuggestQuery never rejects; it resolves to an empty
\* array, without any HTTP request, when the channel filter is empty, and to
\* an empty array when the channel suggest phase yields no sensor object id
\* or either phase fails; the values request is issued only after the
\* channel suggest phase resolved with an object id, and for the id of the
\* first sensor in sorted order.
C25_ValueSuggestNeverRejects ==
    ValueSuggested =>
        /\ api.pc = "settled" => api.out.st = "resolved"
        /\ (api.pc = "settled" /\ api.args.channelFilter = <<>>) =>
               api.out = Resolved(ListBody(<<>>)) /\ httpLog = <<>>
        /\ (api.pc = "settled" /\ \E i \in 1..Len(httpLog) : httpLog[i].result # "ok") =>
               api.out = Resolved(ListBody(<<>>))
        /\ (api.pc = "settled" /\ api.args.channelFilter # <<>>
             /\ (SensorsGiven = <<>> \/ FirstSorted(SensorsGiven).objid = 0)) =>
               api.out = Resolved(ListBody(<<>>)) /\ Len(httpLog) = 1
        /\ Len(httpLog) = 2 =>
               /\ httpLog[1].result = "ok"
               /\ SensorsGiven # <<>>
               /\ FirstSorted(SensorsGiven).objid # 0
               /\ httpLog[2].url = valuesUrl(FirstSorted(SensorsGiven).objid)

\* The server listed the sensor that sorts first in second place; the
\* values request was issued for its id, and it failed.
C25_Witness ==
    /\ ValueSuggested /\ api.pc = "settled"
    /\ Len(httpLog) = 2
    /\ Len(SensorsGiven) = 2
    /\ SensorsGiven[1].name > SensorsGiven[2].name
    /\ SensorsGiven[1].objid # SensorsGiven[2].objid
    /\ httpLog[2].url = valuesUrl(SensorsGiven[2].objid)
    /\ httpLog[2].result # "ok"
    /\ api.out = Resolved(ListBody(<<>>))

GotMessages == api.op = "getMessages" /\ api.resp.k = "ok"

ServerMessages == api.resp.data.cols["messages"]

\* round((datetime_raw - 25569) * 86400), in seconds.
DerivedTimestamp(message) ==
    (message.datetime_raw.days - 25569) * 86400 + (message.datetime_raw.half + 1) \div 2

Qualifies(message) ==
    /\ message.parent # "" /\ message.type # "" /\ message.message # ""
    /\ message.datetime_raw # NoDate
    /\ DerivedTimestamp(message) > api.args.fromTime
    /\ DerivedTimestamp(message) < api.args.toTime

\* C26: getMessages returns exactly one entry for each server message that
\* has parent, type and message and whose timestamp
\* round((datetime_raw - 25569) * 86400) lies strictly between fromTime and
\* toTime, in server order and with time equal to that timestamp times
\* 1000; every other message is dropped.
C26_MessagesFilteredByTime ==
    GotMessages =>
        LET qualifying == SelectSeq(ServerMessages, Qualifies)
        IN  /\ api.out.st = "resolved"
            /\ Len(api.out.val.rows) = Len(qualifying)
            /\ \A i \in 1..Len(qualifying) :
                   api.out.val.rows[i].time = DerivedTimestamp(qualifying[i]) * 1000

\* The same, for a response body without the 'prtg-version' marker.
C26_HoldsWithoutMarker == (GotMessages /\ api.resp.data.marker = "") => C26_MessagesFilteredByTime

---------------------------------------------------------------------------
(* Claims about the frames of query() (SpecDs)                             *)

Querying == ds.op = "query"
IsMetrics(i) == ds.targets[i].queryType \notin {"text", "raw"}
TargetSettled(i) == ds.t[i].pc \in {"frame", "null", "rejected"}

\* The columns valueSelection names, and the non-datetime columns of the
\* history data of target i.
NamedColumns(i) == {ds.targets[i].valueSelection[k].s : k \in 1..Len(ds.targets[i].valueSelection)}
HistoryColumns(i) == {ds.t[i].histData[1].columns[k].key : k \in 1..Len(ds.t[i].histData[1].columns)}
ValueFieldNames(i) == {ds.t[i].frame.fields[k].name : k \in 2..Len(ds.t[i].frame.fields)}

\* The frame of a metrics target has the Time field first and one value
\* field per named column that the history data has, or per column of the
\* history data when no named column is one of them.
MetricsFrameFollowsSelection(i) ==
    ds.t[i].pc = "frame" =>
        LET expected == IF NamedColumns(i) \cap HistoryColumns(i) # {}
                        THEN NamedColumns(i) \cap HistoryColumns(i)
                        ELSE HistoryColumns(i)
        IN  /\ ds.t[i].frame.fields[1].name = "Time"
            /\ ValueFieldNames(i) = expected
            /\ Len(ds.t[i].frame.fields) = 1 + Cardinality(expected)

\* C27: in metrics mode a target whose sensor and history resolve produces
\* one frame with the Time field first and one value field per column named
\* in valueSelection that the history data has; when valueSelection is
\* empty, or names no such column, the frame has one value field for every
\* non-datetime column of the history data. A target with a sensor is thus
\* left without a frame only by a lookup that did not resolve.
C27_MetricsFrameFields ==
    Querying =>
        \A i \in 1..Len(ds.targets) :
            (IsMetrics(i) /\ ds.targets[i].sensorSelection # 0 /\ TargetSettled(i)) =>
                /\ MetricsFrameFollowsSelection(i)
                /\ ds.t[i].pc = "frame" \/ ds.t[i].calls # <<>>

\* The same, for the targets that name a value.
C27_HoldsForNamedValues ==
    Querying =>
        \A i \in 1..Len(ds.targets) :
            (IsMetrics(i) /\ ds.targets[i].sensorSelection # 0 /\ TargetSettled(i)
             /\ ds.targets[i].valueSelection # <<>>) =>
                /\ MetricsFrameFollowsSelection(i)
                /\ ds.t[i].pc = "frame" \/ ds.t[i].calls # <<>>

IsInfoTarget(i) ==
    /\ ds.targets[i].queryType \in {"text", "raw"}
    /\ ds.targets[i].propertySelection \in {"group", "device", "sensor"}

\* The name of the filter property of target i: the one selected, or the
\* default of its mode.
FilterPropertyName(i) ==
    IF ds.targets[i].filterPropertySelection # "" THEN ds.targets[i].filterPropertySelection
    ELSE IF ds.targets[i].queryType = "text" THEN "status" ELSE "status_raw"

\* C28: a text-mode or raw-mode target whose propertySelection is 'group',
\* 'device' or 'sensor' and whose info record resolves produces one frame
\* with exactly two single-valued fields, 'Time' first and then a field
\* named after the filter property; with any other propertySelection it
\* produces no frame and makes no API call.
C28_InfoFrameHasTwoFields ==
    Querying =>
        \A i \in 1..Len(ds.targets) :
            /\ (IsInfoTarget(i) /\ TargetSettled(i)) =>
                   /\ ds.t[i].pc \in {"frame", "rejected"}
                   /\ ds.t[i].pc = "rejected" => ds.t[i].err.name # "none"
                   /\ ds.t[i].pc = "frame" =>
                          ds.t[i].frame.fields =
                              <<[name |-> "Time", length |-> 1],
                                [name |-> FilterPropertyName(i), length |-> 1]>>
            /\ (ds.targets[i].queryType \in {"text", "raw"} /\ ~IsInfoTarget(i)) =>
                   ds.t[i].pc = "null" /\ ds.t[i].calls = <<>>

\* A raw target without a filter property and a text target with the
\* filter property 'tags' have both produced their frames.
C28_Witness ==
    /\ Querying
    /\ \E i, j \in 1..Len(ds.targets) :
           /\ IsInfoTarget(i) /\ ds.targets[i].queryType = "raw" /\ ds.t[i].pc = "frame"
           /\ ds.t[i].frame.fields[2].name = "status_raw"
           /\ IsInfoTarget(j) /\ ds.targets[j].queryType = "text" /\ ds.t[j].pc = "frame"
           /\ ds.t[j].frame.fields[2].name = "tags"

RequestFailedIn == api.op = "executeRequest" /\ api.resp.k # "ok"

AccessDenied == <<"Access denied. Please verify authentication and permissions.">>

\* C29: every failed HTTP request surfaces from executeRequest as a
\* PRTGError and never as a returned value: a response with status 403
\* gives the 'Access denied' error and not the status-coded one, every
\* other failure response an error whose code is the HTTP status and whose
\* details are the response body.
C29_FailuresBecomePRTGErrors ==
    RequestFailedIn =>
        /\ ~api.out.ok
        /\ api.out.val = NoBody
        /\ api.out.err.name = "PRTGError"
        /\ (api.resp.k = "http" /\ api.resp.status = "403") =>
               api.out.err.message = AccessDenied /\ api.out.err.code # "403"
        /\ (api.resp.k = "http" /\ api.resp.status # "403") =>
               /\ api.out.err.message # AccessDenied
               /\ api.out.err.code = api.resp.status
               /\ api.out.err.details = api.resp.data

\* A request was answered 403 Forbidden and the 'Access denied' error thrown.
C29_Witness ==
    /\ RequestFailedIn
    /\ api.resp = HttpFailure("403", "Forbidden", StrBody("Forbidden"))
    /\ api.out.err.message = AccessDenied

---------------------------------------------------------------------------
(* Claims about overlapping list updates (SpecRefresh)                     *)

Idle == ctl.st = "open" /\ ctl.pending = <<>>

EntriesOf(list) == {list[k] : k \in 1..Len(list)}

\* C30: under every interleaving of the host's calls with the arrival of
\* suggest responses, once no request is in flight each candidate list
\* holds only the seed entries and the entries returned by the request
\* started last for its level: no entry of a superseded request, no entry
\* twice, and none at all if the list was cleared or disposed after that
\* request started.
C30_ListsFollowLatestRequest ==
    Idle =>
        \A level \in LevelSet :
            LET list == ctl.metric[ListOf(level)]
            IN  /\ EntriesOf(list) \subseteq EntriesOf(ctl.latest[level].list)
                /\ \A j, k \in 1..Len(list) : list[j] = list[k] => j = k

---------------------------------------------------------------------------
(* Claims about lists and the selections that scope them (SpecClear)       *)

\* C31: in every reachable controller state with no request in flight, a
\* candidate list never outlives the selection that scoped it: if the
\* device (sensor, channel, value) list is non-empty then the group
\* (device, sensor, channel) selector name is non-empty.
C31_ListsNeverOutliveScope ==
    Idle =>
        \A level \in LevelSet \ {"group"} :
            ctl.metric[ListOf(level)] # <<>> =>
                ctl.target[SelectionOf(GuardOf(level))].name # <<>>

---------------------------------------------------------------------------
(* Claims about the resolution of a metrics target (SpecDs)                *)

HistoryIssued(i) == \E k \in 1..Len(ds.t[i].calls) : ds.t[i].calls[k] = "performQuerySuggestQuery"

SensorResolved(i) == ds.t[i].info.st = "resolved" /\ ds.t[i].info.val.objid # 0

Skipped(i) == ds.targets[i].valueSelection = <<>> \/ ds.targets[i].sensorSelection = 0

\* C32: within one metrics-mode target the historical-data request is
\* issued only after the target's sensor lookup has resolved with an object
\* id; it is never issued when the sensor cannot be resolved or the value or
\* sensor selection is empty, and the target then yields no frame without
\* raising; the targets of one query() call are all started at once, none
\* waiting for another.
C32_MetricsTargetIsSequential ==
    Querying =>
        \A i \in 1..Len(ds.targets) :
            IsMetrics(i) =>
                /\ HistoryIssued(i) =>
                       /\ ds.t[i].calls = <<"getSensorInfo", "performQuerySuggestQuery">>
                       /\ SensorResolved(i)
                /\ Skipped(i) => ds.t[i].calls = <<>> /\ ds.t[i].pc = "null"
                /\ (ds.t[i].info.st # "pending" /\ ~SensorResolved(i)) =>
                       ~HistoryIssued(i) /\ ds.t[i].pc = "null"
                /\ ds.t[i].pc # "rejected"
                /\ ~Skipped(i) => ds.t[i].calls # <<>>

\* The second target has resolved its sensor, fetched its history and made
\* its frame while the first is still waiting for its sensor.
C32_Witness ==
    /\ Querying /\ Len(ds.targets) = 2
    /\ IsMetrics(1) /\ IsMetrics(2)
    /\ ds.t[1].pc = "info"
    /\ ds.t[2].pc = "frame" /\ HistoryIssued(2) /\ SensorResolved(2)

---------------------------------------------------------------------------
(* Claims about validation (SpecNotify)                                    *)

\* C33: getValidationStatus(), and the validateTarget() it calls, modifies no
\* field of the target, so a call of it on a target that equals the snapshot
\* of the last targetChange() leaves the target equal to that snapshot and
\* the next targetChange() notifies nobody.
C33_ValidationIsReportOnly ==
    [][GetValidationStatus =>
          /\ ctl'.target = ctl.target
          /\ isEqual(ctl.oldTarget, ctl.target) => isEqual(ctl'.oldTarget, ctl'.target)]_vars

---------------------------------------------------------------------------
(* Claims about the rows of a frame (SpecDs)                               *)

\* C34: every frame made by query() is row-aligned: each of its value
\* fields holds exactly as many values as its Time field, whatever the
\* history response holds, values that are missing or not numbers included.
C34_FramesAreRowAligned ==
    Querying =>
        \A i \in 1..Len(ds.targets) :
            ds.t[i].pc = "frame" =>
                \A k \in 1..Len(ds.t[i].frame.fields) :
                    ds.t[i].frame.fields[k].length = ds.t[i].frame.fields[1].length

---------------------------------------------------------------------------
(* Claims about the envelope of the messages response (SpecMethods)        *)

\* The response with the same messages array, its body with the
\* 'prtg-version' marker if it had none and without it if it had one.
OtherEnvelope(resp) == [resp EXCEPT !.data.marker = IF @ = "" THEN "24.1" ELSE ""]

\* C35: the result of getMessages does not depend on the response envelope:
\* for the same messages array it returns the same entries whether or not
\* the body of the table.json response also carries a 'prtg-version' marker.
C35_MessagesIgnoreEnvelope ==
    GotMessages =>
        api.out = getMessages(api.args.fromTime, api.args.toTime, OtherEnvelope(api.resp))

---------------------------------------------------------------------------
(* Claims about the query mode (SpecNotify)                                *)

\* C36: the query mode is single-valued: in every state of the controller
\* target.queryType equals target.options.mode.value, so after
\* switchEditorMode(m) the target is dispatched on mode m.
C36_QueryModeIsSingleValued ==
    ctl.st = "open" =>
        /\ ctl.target.queryType = ctl.target.options.mode
        /\ LastCall("switchEditorMode") => ctl.target.queryType = ctl.last.arg

---------------------------------------------------------------------------
(* Claims about the list accessors (SpecClear)                             *)

MetricTypes == LevelSet \cup {"propertyList", "filterPropertyList"}

NamesIn(list) == {list[i].name : i \in 1..Len(list)}
Elements(names) == {names[i] : i \in 1..Len(names)}

\* C37: the two list accessors agree in every state: for each list type the
\* set of names returned by getMetricList(type) equals the set returned by
\* the matching get<Type>Names(), getPropertyName() or
\* getFilterPropertyName(), after clearSelection and dispose too.
C37_ListAccessorsAgree ==
    ctl.st = "open" =>
        \A metricType \in MetricTypes :
            NamesIn(getMetricList(ctl, metricType))
                = Elements(getMetricNames(ctl, AccessorList(metricType)))

\* The same, for the lists of the five levels.
C37_HoldsForLevelLists ==
    ctl.st = "open" =>
        \A metricType \in LevelSet :
            NamesIn(getMetricList(ctl, metricType))
                = Elements(getMetricNames(ctl, AccessorList(metricType)))

---------------------------------------------------------------------------
(* Claims about the order of the buckets (SpecApi)                         *)

\* The width in seconds that a value of the avg parameter asks for.
BucketWidth(bucket) ==
    CASE bucket = "0"     -> 0
      [] bucket = "300"   -> 300
      [] bucket = "3600"  -> 3600
      [] bucket = "86400" -> 86400

\* C38: the averaging bucket is monotone in the requested span: for spans
\* h1 <= h2 the bucket chosen for h1 is at most as wide as the bucket chosen
\* for h2; here h2 is the span of the request that was sent and h1 any span
\* that is not longer.
C38_BucketIsMonotone ==
    HistoryRequested =>
        \A shorter \in SpanHours :
            shorter * HourMs <= api.args.edate - api.args.sdate =>
                BucketWidth(avg(api.args.sdate, api.args.sdate + shorter * HourMs))
                    <= BucketWidth(AvgSent[1].v)

---------------------------------------------------------------------------
(* Claims about masking (SpecMethods)                                      *)

MaskedData == api.op = "maskSensitiveData"

CredentialKeys == {"passhash", "passwordHash", "password"}

\* No piece of the string is a passhash query parameter with a value other
\* than the mask.
NoPasshashIn(string) ==
    \A i \in 1..Len(string.pieces) :
        LET p == string.pieces[i]
        IN  (p.piece = "param" /\ p.before \in {"&", "?"} /\ p.key = "passhash" /\ p.value # "")
                => p.value = "****"

\* Every credential key of the value holds the mask and every string of it
\* is free of passhash parameters, at any depth.
RECURSIVE NoCredentialIn(_)
NoCredentialIn(value) ==
    CASE value.t = "object" ->
             \A i \in 1..Len(value.entries) :
                 IF value.entries[i].key \in CredentialKeys
                 THEN value.entries[i].value = StringValue(<<Plain("****")>>)
                 ELSE NoCredentialIn(value.entries[i].value)
      [] value.t = "array"  -> \A i \in 1..Len(value.items) : NoCredentialIn(value.items[i])
      [] value.t = "string" -> NoPasshashIn(value)
      [] OTHER              -> TRUE

\* The keys of an object, in order.
KeysOf(value) == [i \in 1..Len(value.entries) |-> value.entries[i].key]

\* C39: in the result of maskSensitiveData, at any nesting depth, the value
\* of every key named passhash, passwordHash or password is the mask '****'
\* and every 'passhash=' query parameter inside a string value is masked,
\* while the other keys keep their values: the result has the keys of the
\* input, and a number or null under another key is the one of the input.
C39_NoCredentialGetsThrough ==
    MaskedData =>
        /\ NoCredentialIn(api.out)
        /\ api.args.obj.t = "object" =>
               /\ api.out.t = "object"
               /\ KeysOf(api.out) = KeysOf(api.args.obj)
               /\ \A i \in 1..Len(api.args.obj.entries) :
                      (/\ api.args.obj.entries[i].key \notin CredentialKeys
                       /\ api.args.obj.entries[i].value.t \in {"number", "null"})
                          => api.out.entries[i].value = api.args.obj.entries[i].value

RECURSIVE MixedCaseKeyIn(_)
MixedCaseKeyIn(value) ==
    CASE value.t = "object" ->
             \E i \in 1..Len(value.entries) :
                 \/ value.entries[i].key \in {"passwordHash", "Password"}
                 \/ MixedCaseKeyIn(value.entries[i].value)
      [] value.t = "array"  -> \E i \in 1..Len(value.items) : MixedCaseKeyIn(value.items[i])
      [] OTHER              -> FALSE

\* The same, for inputs none of whose keys is passwordHash or Password.
C39_HoldsForLowerCaseKeys ==
    (MaskedData /\ ~MixedCaseKeyIn(api.args.obj))
        => C39_NoCredentialGetsThrough

====
